---- MODULE Spec2Model ----
(***************************************************************************)
(* Model of the paperhands simulation core: the Portfolio ledger           *)
(* (src/src/portfolio/portfolio.py), the BacktestBroker order matcher      *)
(* (src/src/execution/backtest_broker.py), the domain types                *)
(* (src/src/core/types.py) and the BacktestEngine simulation loop          *)
(* (src/paperhands/backtest/engine.py).                                    *)
(*                                                                         *)
(* Python floats are modelled as exact rationals <<n, d>> in lowest terms  *)
(* with d > 0, so that equal values are equal tuples.  Order objects live  *)
(* in a heap (order_objs); the broker's dict and list hold references      *)
(* (heap indices) to them, as the Python containers do.                    *)
(***************************************************************************)
EXTENDS Integers, Sequences, FiniteSets, TLC

VARIABLES
    initial_cash,          \* Portfolio.initial_cash
    cash,                  \* Portfolio.cash
    positions,             \* Portfolio.positions: symbol -> Position
    equity_history,        \* Portfolio.equity_history
    realized_pnl,          \* Portfolio.realized_pnl
    trade_history,         \* Portfolio.trade_history
    commission_per_share,  \* BacktestBroker.commission_per_share
    slippage_percent,      \* BacktestBroker.slippage_percent
    order_objs,            \* the Order objects created so far (heap)
    orders,                \* BacktestBroker.orders: order_id -> Order reference
    open_orders,           \* BacktestBroker.open_orders: list of Order references
    fill_events,           \* BacktestBroker.fill_events
    returned_events,       \* the fill events get_fill_events has returned so far, in order
    start_date,            \* BacktestEngine.start_date
    bars_by_time,          \* BacktestEngine.bars_by_time: timestamp -> the (symbol, Bar) items
                           \* of its dict, in insertion order
    pc,                    \* where BacktestEngine.run stands
    cursor,                \* the <<timestamp, index of the symbol or fill event>> run works on
    callbacks,             \* the strategy callbacks run has made so far, in order
    last_call              \* the last constructor or metric call made, with what it gave

pvars == <<initial_cash, cash, positions, equity_history, realized_pnl, trade_history>>
bvars == <<commission_per_share, slippage_percent, order_objs, orders, open_orders, fill_events,
           returned_events>>
evars == <<start_date, bars_by_time, pc, cursor, callbacks>>
vars == <<initial_cash, cash, positions, equity_history, realized_pnl, trade_history,
          commission_per_share, slippage_percent, order_objs, orders, open_orders,
          fill_events, returned_events,
          start_date, bars_by_time, pc, cursor, callbacks, last_call>>

-----------------------------------------------------------------------------
(* Bounds of the model *)

\* largest price (open, high, low, close, limit, stop, fill price) drawn as an input
MaxPrice == 2
\* largest order quantity passed to Portfolio.process_fill directly
MaxQty == 2
\* largest commission passed to Portfolio.process_fill directly
MaxCommission == 1
\* number of direct Portfolio.process_fill calls in a run
MaxFills == 2
\* number of equity samples taken by direct update_position_prices calls
MaxMarks == 1
\* largest bar timestamp
MaxTime == 1
\* largest order quantity submitted to the broker
MaxOrderQty == 1
\* number of submit_order calls in a run
MaxOrders == 2

Symbols == {"A", "B"}
Sides == {"buy", "sell"}
Prices == 1..MaxPrice
Timestamps == 1..MaxTime

-----------------------------------------------------------------------------
(* Exact arithmetic standing for Python float arithmetic *)

Abs(x) == IF x < 0 THEN -x ELSE x

RECURSIVE GCD(_, _)
GCD(a, b) == IF b = 0 THEN a ELSE GCD(b, a % b)

Norm(n, d) ==
    LET g == GCD(Abs(n), d)
    IN  IF n = 0 THEN <<0, 1>> ELSE <<n \div g, d \div g>>

R(i) == <<i, 1>>
RAdd(x, y) == Norm(x[1] * y[2] + y[1] * x[2], x[2] * y[2])
RNeg(x) == <<-x[1], x[2]>>
RSub(x, y) == RAdd(x, RNeg(y))
RMul(x, y) == Norm(x[1] * y[1], x[2] * y[2])
\* x / k for an integer k > 0
RDivInt(x, k) == Norm(x[1], x[2] * k)
RLe(x, y) == x[1] * y[2] <= y[1] * x[2]
RLt(x, y) == x[1] * y[2] < y[1] * x[2]
RMin(x, y) == IF RLe(x, y) THEN x ELSE y
RMax(x, y) == IF RLe(y, x) THEN x ELSE y

RECURSIVE RSum(_, _)
\* sum of f[s] over the finite set S
RSum(f, S) ==
    IF S = {} THEN R(0)
    ELSE LET s == CHOOSE x \in S : TRUE
         IN  RAdd(f[s], RSum(f, S \ {s}))

-----------------------------------------------------------------------------
(* Domain types: src/src/core/types.py *)

\* timestamp=None
NoTimestamp == 0

\* limit_price=None, stop_price=None, filled_avg_price=None, fill_price = None
NoPrice == <<0, 0>>
\* order_id=None
NoOrderId == 0

OrderTypes == {"market", "limit", "stop", "stop_limit"}

\* a slip: a stop-limit order is accepted with one of its two prices
OrderValid_StopLimitEither(order_type, limit_price, stop_price) ==
    /\ ~(order_type = "limit" /\ limit_price = NoPrice)
    /\ ~(order_type = "stop" /\ stop_price = NoPrice)
    /\ ~(order_type = "stop_limit" /\ limit_price = NoPrice /\ stop_price = NoPrice)

\* Order.__post_init__: TRUE when construction succeeds
OrderValid(order_type, limit_price, stop_price) ==
    /\ ~(order_type = "limit" /\ limit_price = NoPrice)
    /\ ~(order_type = "stop" /\ stop_price = NoPrice)
    /\ ~(order_type = "stop_limit" /\ (limit_price = NoPrice \/ stop_price = NoPrice))

\* Order(symbol, side, quantity, order_type, limit_price, stop_price) with the defaults of
\* the fields the broker sets
Order(symbol, side, quantity, order_type, limit_price, stop_price) ==
    [symbol |-> symbol, side |-> side, quantity |-> quantity, order_type |-> order_type,
     limit_price |-> limit_price, stop_price |-> stop_price,
     order_id |-> NoOrderId, status |-> "pending", submitted_at |-> "None",
     filled_at |-> NoTimestamp, filled_quantity |-> 0, filled_avg_price |-> NoPrice]

\* a slip: the position is valued at its entry price
market_value_AtEntry(pos) == RMul(R(pos.quantity), pos.avg_entry_price)

\* Position.market_value
market_value(pos) == RMul(R(pos.quantity), pos.current_price)
\* Position.cost_basis
cost_basis(pos) == RMul(R(pos.quantity), pos.avg_entry_price)
\* a slip: the unrealized P&L is taken on the size of the position, as if it were long
unrealized_pnl_AsLong(pos) ==
    RMul(R(Abs(pos.quantity)), RSub(pos.current_price, pos.avg_entry_price))

\* Position.unrealized_pnl
unrealized_pnl(pos) == RSub(market_value(pos), cost_basis(pos))

\* Position(symbol, quantity, avg_entry_price, current_price); the symbol is the map key
Position(q, avg, cur) == [quantity |-> q, avg_entry_price |-> avg, current_price |-> cur]

-----------------------------------------------------------------------------
(* Portfolio: src/src/portfolio/portfolio.py *)

\* Portfolio.portfolio_value over a given cash and position map
PortfolioValueOf(c, ps) ==
    RAdd(c, RSum([s \in DOMAIN ps |-> market_value(ps[s])], DOMAIN ps))

portfolio_value == PortfolioValueOf(cash, positions)

\* Portfolio.total_pnl
total_pnl ==
    RAdd(realized_pnl,
         RSum([s \in DOMAIN positions |-> unrealized_pnl(positions[s])], DOMAIN positions))

\* quantity = order.quantity if order.side == BUY else -order.quantity
SignedQuantity(side, qty) == IF side = "buy" THEN qty ELSE -qty

\* transaction_cost = fill_price * abs(quantity) + commission
TransactionCost(fill_price, quantity, commission) ==
    RAdd(RMul(fill_price, R(Abs(quantity))), commission)

\* a slip: a reversal realizes on the whole fill quantity, not on the old position
RealizedOfFill_OnFillQuantity(ps, symbol, quantity, fill_price) ==
    IF symbol \notin DOMAIN ps THEN R(0)
    ELSE LET old_quantity == ps[symbol].quantity
             realized == RMul(RSub(fill_price, ps[symbol].avg_entry_price), R(Abs(quantity)))
         IN  IF (old_quantity > 0 /\ quantity > 0) \/ (old_quantity < 0 /\ quantity < 0)
             THEN R(0)
             ELSE IF old_quantity < 0 THEN RNeg(realized) ELSE realized

\* the realized P&L of one fill (0 when the fill opens or adds to a position)
RealizedOfFill(ps, symbol, quantity, fill_price) ==
    IF symbol \notin DOMAIN ps THEN R(0)
    ELSE LET old_quantity == ps[symbol].quantity
             avg == ps[symbol].avg_entry_price
             closed == IF old_quantity + quantity = 0 \/ Abs(quantity) < Abs(old_quantity)
                       THEN Abs(quantity) ELSE Abs(old_quantity)
             realized == RMul(RSub(fill_price, avg), R(closed))
         IN  IF (old_quantity > 0 /\ quantity > 0) \/ (old_quantity < 0 /\ quantity < 0)
             THEN R(0)
             ELSE IF old_quantity < 0 THEN RNeg(realized) ELSE realized

\* the position map after one fill with one of three slips: "keep" leaves a fully closed
\* position in the map, "reset" re-bases avg_entry_price on a partial close, "mean"
\* averages the two prices without weighting them by quantity
PositionsAfterFillSlip(ps, symbol, quantity, fill_price, slip) ==
    IF symbol \in DOMAIN ps
    THEN LET position == ps[symbol]
             old_quantity == position.quantity
         IN  IF (old_quantity > 0 /\ quantity > 0) \/ (old_quantity < 0 /\ quantity < 0)
             THEN LET total_cost ==
                          IF slip = "mean"
                          THEN RAdd(position.avg_entry_price, fill_price)
                          ELSE RAdd(RMul(position.avg_entry_price, R(Abs(old_quantity))),
                                    RMul(fill_price, R(Abs(quantity))))
                      new_quantity == old_quantity + quantity
                      n == IF slip = "mean" THEN 2 ELSE Abs(new_quantity)
                  IN  [ps EXCEPT ![symbol] =
                          Position(new_quantity, RDivInt(total_cost, n), fill_price)]
             ELSE IF old_quantity + quantity = 0
             THEN IF slip = "keep"
                  THEN [ps EXCEPT ![symbol] = Position(0, position.avg_entry_price, fill_price)]
                  ELSE [s \in DOMAIN ps \ {symbol} |-> ps[s]]
             ELSE IF Abs(quantity) < Abs(old_quantity)
             THEN [ps EXCEPT ![symbol] =
                      Position(old_quantity + quantity,
                               IF slip = "reset" THEN fill_price ELSE position.avg_entry_price,
                               fill_price)]
             ELSE [ps EXCEPT ![symbol] = Position(quantity + old_quantity, fill_price, fill_price)]
    ELSE [s \in DOMAIN ps \cup {symbol} |->
             IF s = symbol THEN Position(quantity, fill_price, fill_price) ELSE ps[s]]

PositionsAfterFill_KeepClosed(ps, symbol, quantity, fill_price) ==
    PositionsAfterFillSlip(ps, symbol, quantity, fill_price, "keep")
PositionsAfterFill_ResetAvg(ps, symbol, quantity, fill_price) ==
    PositionsAfterFillSlip(ps, symbol, quantity, fill_price, "reset")
PositionsAfterFill_MeanPrice(ps, symbol, quantity, fill_price) ==
    PositionsAfterFillSlip(ps, symbol, quantity, fill_price, "mean")

\* the position map after one fill
PositionsAfterFill(ps, symbol, quantity, fill_price) ==
    IF symbol \in DOMAIN ps
    THEN LET position == ps[symbol]
             old_quantity == position.quantity
         IN  IF (old_quantity > 0 /\ quantity > 0) \/ (old_quantity < 0 /\ quantity < 0)
             THEN \* adding to existing position
                  LET total_cost == RAdd(RMul(position.avg_entry_price, R(Abs(old_quantity))),
                                         RMul(fill_price, R(Abs(quantity))))
                      new_quantity == old_quantity + quantity
                  IN  [ps EXCEPT ![symbol] =
                          Position(new_quantity, RDivInt(total_cost, Abs(new_quantity)), fill_price)]
             ELSE IF old_quantity + quantity = 0
             THEN \* closing position completely: del self.positions[symbol]
                  [s \in DOMAIN ps \ {symbol} |-> ps[s]]
             ELSE IF Abs(quantity) < Abs(old_quantity)
             THEN \* partially closing
                  [ps EXCEPT ![symbol] =
                      Position(old_quantity + quantity, position.avg_entry_price, fill_price)]
             ELSE \* reversing position
                  [ps EXCEPT ![symbol] = Position(quantity + old_quantity, fill_price, fill_price)]
    ELSE \* new position
         [s \in DOMAIN ps \cup {symbol} |->
             IF s = symbol THEN Position(quantity, fill_price, fill_price) ELSE ps[s]]

\* a slip: a sell is credited in full, its commission is never charged
CashAfterFill_SellFree(c, side, qty, fill_price, commission) ==
    IF side = "buy"
    THEN RSub(c, RAdd(RMul(fill_price, R(qty)), commission))
    ELSE RAdd(c, RMul(fill_price, R(qty)))

\* the cash after one fill
CashAfterFill(c, side, qty, fill_price, commission) ==
    IF side = "buy"
    THEN RSub(c, TransactionCost(fill_price, SignedQuantity(side, qty), commission))
    ELSE RAdd(c, RSub(RMul(fill_price, R(qty)), commission))

\* a slip: the record's portfolio value leaves out the positions
TradeRecord_CashOnly(timestamp, symbol, side, qty, fill_price, commission, c, ps) ==
    [timestamp |-> timestamp, symbol |-> symbol, side |-> side, quantity |-> qty,
     price |-> fill_price, commission |-> commission, cash_after |-> c,
     portfolio_value |-> c]

\* the record appended to trade_history
TradeRecord(timestamp, symbol, side, qty, fill_price, commission, c, ps) ==
    [timestamp |-> timestamp, symbol |-> symbol, side |-> side, quantity |-> qty,
     price |-> fill_price, commission |-> commission, cash_after |-> c,
     portfolio_value |-> PortfolioValueOf(c, ps)]

\* the ledger as one value, for operations that run several fills in one call
Ledger == [cash |-> cash, positions |-> positions, realized_pnl |-> realized_pnl,
           trade_history |-> trade_history]

\* Portfolio.process_fill as a function of the ledger
process_fill(pf, symbol, side, qty, fill_price, commission, timestamp) ==
    LET quantity == SignedQuantity(side, qty)
        ps == PositionsAfterFill(pf.positions, symbol, quantity, fill_price)
        c == CashAfterFill(pf.cash, side, qty, fill_price, commission)
    IN  [cash |-> c,
         positions |-> ps,
         realized_pnl |-> RAdd(pf.realized_pnl,
                               RealizedOfFill(pf.positions, symbol, quantity, fill_price)),
         trade_history |-> Append(pf.trade_history,
                                  TradeRecord(timestamp, symbol, side, qty, fill_price,
                                              commission, c, ps))]

\* Portfolio.update_position_prices: the repriced position map
RepricedPositions(ps, prices) ==
    [s \in DOMAIN ps |->
        IF s \in DOMAIN prices THEN [ps[s] EXCEPT !.current_price = prices[s]] ELSE ps[s]]

\* a direct call of Portfolio.process_fill
ProcessFill(symbol, side, qty, fill_price, commission, timestamp) ==
    /\ Len(trade_history) < MaxFills
    /\ LET pf == process_fill(Ledger, symbol, side, qty, fill_price, commission, timestamp)
       IN  /\ cash' = pf.cash
           /\ positions' = pf.positions
           /\ realized_pnl' = pf.realized_pnl
           /\ trade_history' = pf.trade_history
    /\ UNCHANGED <<initial_cash, equity_history>>
    /\ UNCHANGED bvars

\* a slip: the sample is taken before the positions are repriced
EquitySample_BeforeRepricing(timestamp, c, before, after) ==
    <<timestamp, PortfolioValueOf(c, before)>>

\* update_position_prices, lines 119-120: the sample appended to equity_history, taken after
\* the loop over the positions has set their current prices
EquitySample(timestamp, c, before, after) == <<timestamp, PortfolioValueOf(c, after)>>

\* a call of Portfolio.update_position_prices
UpdatePositionPrices(prices, timestamp) ==
    /\ positions' = RepricedPositions(positions, prices)
    /\ equity_history' =
          IF timestamp # NoTimestamp
          THEN Append(equity_history, EquitySample(timestamp, cash, positions, positions'))
          ELSE equity_history
    /\ UNCHANGED <<initial_cash, cash, realized_pnl, trade_history>>
    /\ UNCHANGED bvars

\* the price dictionaries passed to update_position_prices
PriceDicts == UNION {[D -> {R(p) : p \in Prices}] : D \in SUBSET Symbols}

-----------------------------------------------------------------------------
(* BacktestBroker: src/src/execution/backtest_broker.py *)

\* FillEvent(order, fill_price, fill_quantity, timestamp, commission)
FillEvent(order, fill_price, fill_quantity, timestamp, commission) ==
    [order |-> order, fill_price |-> fill_price, fill_quantity |-> fill_quantity,
     timestamp |-> timestamp, commission |-> commission]

\* the price at which a bar fills an order before slippage with one of four slips:
\* "close" fills a market order at the bar's close, "strict" compares a limit price with
\* < and > where the code has <= and >=, "nogap" fills a stop order at its stop price even
\* when the bar opens beyond it, "eager" fills a limit order whatever the bar's range is
BaseFillPriceSlip(order, bar_open, bar_high, bar_low, bar_close, slip) ==
    IF order.order_type = "market" THEN (IF slip = "close" THEN bar_close ELSE bar_open)
    ELSE IF order.order_type = "limit"
    THEN IF order.side = "buy"
         THEN IF (IF slip = "strict" THEN RLt(bar_low, order.limit_price)
                                     ELSE slip = "eager" \/ RLe(bar_low, order.limit_price))
              THEN RMin(order.limit_price, bar_open) ELSE NoPrice
         ELSE IF (IF slip = "strict" THEN RLt(order.limit_price, bar_high)
                                     ELSE slip = "eager" \/ RLe(order.limit_price, bar_high))
              THEN RMax(order.limit_price, bar_open) ELSE NoPrice
    ELSE IF order.order_type = "stop"
    THEN IF order.side = "buy"
         THEN IF RLe(order.stop_price, bar_high)
              THEN (IF slip = "nogap" THEN order.stop_price
                                      ELSE RMax(order.stop_price, bar_open))
              ELSE NoPrice
         ELSE IF RLe(bar_low, order.stop_price)
              THEN (IF slip = "nogap" THEN order.stop_price
                                      ELSE RMin(order.stop_price, bar_open))
              ELSE NoPrice
    ELSE NoPrice

BaseFillPrice_MarketAtClose(order, bar_open, bar_high, bar_low, bar_close) ==
    BaseFillPriceSlip(order, bar_open, bar_high, bar_low, bar_close, "close")
BaseFillPrice_StrictLimit(order, bar_open, bar_high, bar_low, bar_close) ==
    BaseFillPriceSlip(order, bar_open, bar_high, bar_low, bar_close, "strict")
BaseFillPrice_StopNoGap(order, bar_open, bar_high, bar_low, bar_close) ==
    BaseFillPriceSlip(order, bar_open, bar_high, bar_low, bar_close, "nogap")
\* a slip: a stop-limit order is matched as a limit order at its limit price
BaseFillPrice_StopLimitAsLimit(order, bar_open, bar_high, bar_low, bar_close) ==
    IF order.order_type = "stop_limit"
    THEN BaseFillPriceSlip([order EXCEPT !.order_type = "limit"], bar_open, bar_high, bar_low,
                           bar_close, "none")
    ELSE BaseFillPriceSlip(order, bar_open, bar_high, bar_low, bar_close, "none")

\* the price at which a bar fills an order before slippage, NoPrice when it does not
\* (filled = False, or fill_price is None)
BaseFillPrice(order, bar_open, bar_high, bar_low, bar_close) ==
    IF order.order_type = "market" THEN bar_open
    ELSE IF order.order_type = "limit"
    THEN IF order.side = "buy"
         THEN IF RLe(bar_low, order.limit_price)
              THEN RMin(order.limit_price, bar_open) ELSE NoPrice
         ELSE IF RLe(order.limit_price, bar_high)
              THEN RMax(order.limit_price, bar_open) ELSE NoPrice
    ELSE IF order.order_type = "stop"
    THEN IF order.side = "buy"
         THEN IF RLe(order.stop_price, bar_high)
              THEN RMax(order.stop_price, bar_open) ELSE NoPrice
         ELSE IF RLe(bar_low, order.stop_price)
              THEN RMin(order.stop_price, bar_open) ELSE NoPrice
    ELSE NoPrice

\* the fill price after slippage
ApplySlippage(fill_price, side, slip) ==
    IF RLt(R(0), slip)
    THEN LET slippage == RMul(fill_price, RDivInt(slip, 100))
         IN  IF side = "buy" THEN RAdd(fill_price, slippage) ELSE RSub(fill_price, slippage)
    ELSE fill_price

\* commission = order.quantity * self.commission_per_share
CommissionOf(quantity, per_share) == RMul(R(quantity), per_share)

\* list.remove(x): the list without its first element equal to x
RECURSIVE RemoveFirst(_, _)
RemoveFirst(seq, x) ==
    IF seq = <<>> THEN <<>>
    ELSE IF Head(seq) = x THEN Tail(seq)
    ELSE <<Head(seq)>> \o RemoveFirst(Tail(seq), x)

RECURSIVE RemoveAll(_, _)
\* for order in orders_to_remove: self.open_orders.remove(order)
RemoveAll(seq, to_remove) ==
    IF to_remove = <<>> THEN seq
    ELSE RemoveAll(RemoveFirst(seq, Head(to_remove)), Tail(to_remove))

\* the broker and ledger state the loop of process_bar works on
BarLoopState ==
    [objs |-> order_objs, pf |-> Ledger, fill_events |-> fill_events, to_remove |-> <<>>]

\* a slip: the fill event carries the price before slippage
BarLoopBody_EventAtBase(st, ref, symbol, bar_open, bar_high, bar_low, bar_close, timestamp) ==
    LET order == st.objs[ref]
        base == BaseFillPrice(order, bar_open, bar_high, bar_low, bar_close)
    IN  IF order.symbol # symbol \/ base = NoPrice THEN st
        ELSE LET fill_price == ApplySlippage(base, order.side, slippage_percent)
                 commission == CommissionOf(order.quantity, commission_per_share)
                 filled == [order EXCEPT !.status = "filled",
                                         !.filled_at = timestamp,
                                         !.filled_quantity = order.quantity,
                                         !.filled_avg_price = fill_price]
             IN  [objs |-> [st.objs EXCEPT ![ref] = filled],
                  pf |-> process_fill(st.pf, order.symbol, order.side, order.quantity,
                                      fill_price, commission, timestamp),
                  fill_events |-> Append(st.fill_events,
                                         FillEvent(ref, base, order.quantity,
                                                   timestamp, commission)),
                  to_remove |-> Append(st.to_remove, ref)]

\* a slip: the loop of process_bar does not look at the order's symbol
BarLoopBody_AnySymbol(st, ref, symbol, bar_open, bar_high, bar_low, bar_close, timestamp) ==
    LET order == st.objs[ref]
        base == BaseFillPrice(order, bar_open, bar_high, bar_low, bar_close)
    IN  IF base = NoPrice THEN st
        ELSE LET fill_price == ApplySlippage(base, order.side, slippage_percent)
                 commission == CommissionOf(order.quantity, commission_per_share)
                 filled == [order EXCEPT !.status = "filled",
                                         !.filled_at = timestamp,
                                         !.filled_quantity = order.quantity,
                                         !.filled_avg_price = fill_price]
             IN  [objs |-> [st.objs EXCEPT ![ref] = filled],
                  pf |-> process_fill(st.pf, order.symbol, order.side, order.quantity,
                                      fill_price, commission, timestamp),
                  fill_events |-> Append(st.fill_events,
                                         FillEvent(ref, fill_price, order.quantity,
                                                   timestamp, commission)),
                  to_remove |-> Append(st.to_remove, ref)]

\* one iteration of the loop of process_bar, for the order reference ref
BarLoopBody(st, ref, symbol, bar_open, bar_high, bar_low, bar_close, timestamp) ==
    LET order == st.objs[ref]
        base == BaseFillPrice(order, bar_open, bar_high, bar_low, bar_close)
    IN  IF order.symbol # symbol \/ base = NoPrice THEN st
        ELSE LET fill_price == ApplySlippage(base, order.side, slippage_percent)
                 commission == CommissionOf(order.quantity, commission_per_share)
                 filled == [order EXCEPT !.status = "filled",
                                         !.filled_at = timestamp,
                                         !.filled_quantity = order.quantity,
                                         !.filled_avg_price = fill_price]
             IN  [objs |-> [st.objs EXCEPT ![ref] = filled],
                  pf |-> process_fill(st.pf, order.symbol, order.side, order.quantity,
                                      fill_price, commission, timestamp),
                  fill_events |-> Append(st.fill_events,
                                         FillEvent(ref, fill_price, order.quantity,
                                                   timestamp, commission)),
                  to_remove |-> Append(st.to_remove, ref)]

RECURSIVE BarLoop(_, _, _, _, _, _, _, _)
\* for order in self.open_orders, from index i on
BarLoop(st, i, symbol, bar_open, bar_high, bar_low, bar_close, timestamp) ==
    IF i > Len(open_orders) THEN st
    ELSE BarLoop(BarLoopBody(st, open_orders[i], symbol, bar_open, bar_high, bar_low,
                             bar_close, timestamp),
                 i + 1, symbol, bar_open, bar_high, bar_low, bar_close, timestamp)

\* a slip of submit_order: the status is left as it was
Submitted_StatusKept(order, id) == [order EXCEPT !.order_id = id, !.submitted_at = "now"]

\* the fields submit_order sets on the order it is given
Submitted(order, id) ==
    [order EXCEPT !.order_id = id, !.status = "submitted", !.submitted_at = "now"]

\* BacktestBroker.submit_order for a newly constructed order, as StrategyContext.buy and
\* StrategyContext.sell do; the uuid4 id is modelled as the next unused number
SubmitOrder(symbol, side, quantity, order_type, limit_price, stop_price) ==
    /\ Len(order_objs) < MaxOrders
    /\ OrderValid(order_type, limit_price, stop_price)
    /\ LET ref == Len(order_objs) + 1
           id == Len(orders) + 1
           order == Order(symbol, side, quantity, order_type, limit_price, stop_price)
       IN  /\ order_objs' = Append(order_objs, Submitted(order, id))
           /\ orders' = Append(orders, ref)
           /\ open_orders' = Append(open_orders, ref)
    /\ UNCHANGED <<commission_per_share, slippage_percent, fill_events, returned_events>>
    /\ UNCHANGED pvars

\* BacktestBroker.process_bar
ProcessBar(symbol, bar_open, bar_high, bar_low, bar_close, timestamp) ==
    /\ LET st == BarLoop(BarLoopState, 1, symbol, bar_open, bar_high, bar_low, bar_close,
                         timestamp)
       IN  /\ order_objs' = st.objs
           /\ cash' = st.pf.cash
           /\ positions' = st.pf.positions
           /\ realized_pnl' = st.pf.realized_pnl
           /\ trade_history' = st.pf.trade_history
           /\ fill_events' = st.fill_events
           /\ open_orders' = RemoveAll(open_orders, st.to_remove)
    /\ UNCHANGED <<initial_cash, equity_history, commission_per_share, slippage_percent, orders,
                   returned_events>>

\* the value BacktestBroker.cancel_order(order_id) returns: False for an id that is not in
\* self.orders and for an order that is neither submitted nor pending, True otherwise
CancelResult(order_id) ==
    /\ order_id \in DOMAIN orders
    /\ order_objs[orders[order_id]].status \in {"submitted", "pending"}

\* BacktestBroker.cancel_order: where it returns True the order is canceled and taken from
\* the open orders, where it returns False nothing is touched
CancelOrder(order_id) ==
    /\ IF CancelResult(order_id)
       THEN LET ref == orders[order_id]
            IN  /\ order_objs' = [order_objs EXCEPT ![ref].status = "canceled"]
                /\ open_orders' = RemoveFirst(open_orders, ref)
       ELSE UNCHANGED <<order_objs, open_orders>>
    /\ UNCHANGED <<commission_per_share, slippage_percent, orders, fill_events,
                   returned_events>>
    /\ UNCHANGED pvars

\* BacktestBroker.get_order: the order registered under order_id, None (0) for an unknown id
get_order(order_id) == IF order_id \in DOMAIN orders THEN orders[order_id] ELSE 0

\* a slip of get_fill_events: the queue is copied but not cleared
get_fill_events_NoClear(queue) == [events |-> queue, queue |-> queue]

\* BacktestBroker.get_fill_events: the list it returns and the queue it leaves
get_fill_events(queue) == [events |-> queue, queue |-> <<>>]

\* a call of BacktestBroker.get_fill_events; the caller receives the returned list
GetFillEvents ==
    /\ returned_events' = returned_events \o get_fill_events(fill_events).events
    /\ fill_events' = get_fill_events(fill_events).queue
    /\ UNCHANGED <<commission_per_share, slippage_percent, order_objs, orders, open_orders>>
    /\ UNCHANGED pvars

\* the initial_cash given to the constructor
StartCash == 10

\* Portfolio.__init__
InitPortfolio ==
    /\ initial_cash = R(StartCash)
    /\ cash = initial_cash
    /\ positions = <<>>
    /\ equity_history = <<>>
    /\ realized_pnl = R(0)
    /\ trade_history = <<>>

\* the <<commission_per_share, slippage_percent>> pairs given to the constructor: the
\* defaults, and a broker that charges both
BrokerConfigs == {<<R(0), R(0)>>, <<R(1), R(50)>>}

\* BacktestBroker.__init__
InitBroker ==
    /\ \E cfg \in BrokerConfigs :
          /\ commission_per_share = cfg[1]
          /\ slippage_percent = cfg[2]
    /\ order_objs = <<>>
    /\ orders = <<>>
    /\ open_orders = <<>>
    /\ fill_events = <<>>
    /\ returned_events = <<>>

\* what a call gave: a value, or the exception it raised
Returned(v) == [kind |-> "value", value |-> v]
Raised(error) == [kind |-> "raised", error |-> error]

\* no constructor or metric call has been made
NoCall == last_call = [call |-> "none"]

\* no BacktestEngine is constructed: the Portfolio and the broker are driven directly
NoEngine ==
    /\ start_date = NoTimestamp
    /\ bars_by_time = <<>>
    /\ pc = "none"
    /\ cursor = <<NoTimestamp, 0>>
    /\ callbacks = <<>>
    /\ NoCall

\* a Portfolio used on its own, as the tests of Portfolio do; the broker is idle
InitLedgerOnly ==
    /\ InitPortfolio
    /\ NoEngine
    /\ commission_per_share = R(0)
    /\ slippage_percent = R(0)
    /\ order_objs = <<>>
    /\ orders = <<>>
    /\ open_orders = <<>>
    /\ fill_events = <<>>
    /\ returned_events = <<>>

\* process_fill takes any Order: Order.__post_init__ does not check quantity, so 0 is drawn too
NextPortfolio ==
    \/ \E symbol \in Symbols, side \in Sides, qty \in 0..MaxQty, p \in Prices,
          c \in 0..MaxCommission :
          ProcessFill(symbol, side, qty, R(p), R(c), NoTimestamp) /\ UNCHANGED <<evars, last_call>>
    \/ \E prices \in PriceDicts, timestamp \in {NoTimestamp} \cup Timestamps :
          /\ timestamp # NoTimestamp => Len(equity_history) < MaxMarks
          /\ UpdatePositionPrices(prices, timestamp)
          /\ UNCHANGED <<evars, last_call>>

\* the Portfolio driven directly by its callers
SpecPortfolio == InitLedgerOnly /\ [][NextPortfolio]_vars

\* the orders a strategy constructs: a market order carries no price, a limit order its
\* limit_price, a stop order its stop_price, a stop_limit order both
OrderInputs ==
    {<<t, lp, sp>> \in OrderTypes \X ({NoPrice} \cup {R(p) : p \in Prices})
                                  \X ({NoPrice} \cup {R(p) : p \in Prices}) :
        /\ OrderValid(t, lp, sp)
        /\ (lp # NoPrice) = (t \in {"limit", "stop_limit"})
        /\ (sp # NoPrice) = (t \in {"stop", "stop_limit"})}

\* the bars of the data provider: low <= open, close <= high
Bars ==
    {b \in [open : Prices, high : Prices, low : Prices, close : Prices] :
        b.low <= b.open /\ b.low <= b.close /\ b.open <= b.high /\ b.close <= b.high}

InitBrokerAndPortfolio == InitPortfolio /\ InitBroker /\ NoEngine

\* the strategies of examples/ submit quantities > 0 only
Next ==
    \/ \E symbol \in Symbols, side \in Sides, quantity \in 1..MaxOrderQty, o \in OrderInputs :
          SubmitOrder(symbol, side, quantity, o[1], o[2], o[3]) /\ UNCHANGED <<evars, last_call>>
    \/ \E symbol \in Symbols, b \in Bars, timestamp \in Timestamps :
          ProcessBar(symbol, R(b.open), R(b.high), R(b.low), R(b.close), timestamp)
             /\ UNCHANGED <<evars, last_call>>
    \/ \E order_id \in 1..MaxOrders : CancelOrder(order_id) /\ UNCHANGED <<evars, last_call>>
    \/ GetFillEvents /\ UNCHANGED <<evars, last_call>>

\* the broker and its portfolio driven by a strategy and a bar feed
Spec == InitBrokerAndPortfolio /\ [][Next]_vars

-----------------------------------------------------------------------------
(* Observations used by the properties below *)

\* the trade records appended by the current step
NewTradeCount == Len(trade_history') - Len(trade_history)
\* the single record appended by a step that appends exactly one
NewTrade == trade_history'[Len(trade_history')]
\* the signed quantity a trade record stands for
SignedOf(t) == IF t.side = "buy" THEN t.quantity ELSE -t.quantity
\* the change of cash a trade record stands for
CashDeltaOf(t) ==
    IF t.side = "buy"
    THEN RNeg(RAdd(RMul(t.price, R(t.quantity)), t.commission))
    ELSE RSub(RMul(t.price, R(t.quantity)), t.commission)

RECURSIVE CashDeltaSum(_, _)
\* the sum of the cash changes of records i+1 .. Len(h) of h
CashDeltaSum(h, i) ==
    IF i >= Len(h) THEN R(0) ELSE RAdd(CashDeltaOf(h[i + 1]), CashDeltaSum(h, i + 1))

\* the position size of a symbol in a position map, 0 when there is no entry
SizeIn(ps, s) == IF s \in DOMAIN ps THEN ps[s].quantity ELSE 0

\* cash + sum of quantity * current_price, written out from the position fields
CashPlusHoldings(c, ps) ==
    RAdd(c, RSum([s \in DOMAIN ps |-> RMul(R(ps[s].quantity), ps[s].current_price)],
                 DOMAIN ps))

-----------------------------------------------------------------------------
(* Portfolio.process_fill *)

\* C1: every step changes cash by exactly the sum, over the fills it processed, of
\* -(fill_price * quantity + commission) for a buy and +(fill_price * quantity - commission)
\* for a sell, whatever the position case; a step that processes no fill leaves cash alone.
C1_CashChange ==
    [][ /\ NewTradeCount >= 0
        /\ cash' = RAdd(cash, CashDeltaSum(trade_history', Len(trade_history))) ]_vars

\* a sell with commission has reversed a long position: cash 10 - 1 + (2 * 2 - 1) = 12
C1_Witness ==
    /\ Len(trade_history) = 2
    /\ trade_history[1].side = "buy" /\ trade_history[1].quantity = 1
    /\ trade_history[1].commission = R(0)
    /\ trade_history[2].side = "sell" /\ trade_history[2].quantity = 2
    /\ trade_history[2].commission = R(1)
    /\ SizeIn(positions, "A") = -1
    /\ cash = R(12)

\* C2: a sell of q against a long position L < q realizes (p - a) * L and leaves a short
\* position -(q - L) with avg_entry_price p; a buy of q against a short position of size
\* |old| < q realizes (a - p) * |old| and leaves a long position q - |old| at price p.
C2_Reversal ==
    [][ NewTradeCount = 1 =>
          LET t == NewTrade
              s == t.symbol
              old == SizeIn(positions, s)
          IN  /\ (t.side = "sell" /\ old > 0 /\ old < t.quantity) =>
                    /\ realized_pnl' =
                          RAdd(realized_pnl,
                               RMul(RSub(t.price, positions[s].avg_entry_price), R(old)))
                    /\ s \in DOMAIN positions'
                    /\ positions'[s].quantity = -(t.quantity - old)
                    /\ positions'[s].avg_entry_price = t.price
              /\ (t.side = "buy" /\ old < 0 /\ -old < t.quantity) =>
                    /\ realized_pnl' =
                          RAdd(realized_pnl,
                               RMul(RSub(positions[s].avg_entry_price, t.price), R(-old)))
                    /\ s \in DOMAIN positions'
                    /\ positions'[s].quantity = t.quantity + old
                    /\ positions'[s].avg_entry_price = t.price ]_vars

\* long 1 at price 1 was reversed by a sell of 2 at price 2: realized (2 - 1) * 1 = 1
C2_Witness ==
    /\ Len(trade_history) = 2
    /\ trade_history[1].symbol = "A" /\ trade_history[2].symbol = "A"
    /\ trade_history[1].side = "buy" /\ trade_history[1].quantity = 1
    /\ trade_history[1].price = R(1)
    /\ trade_history[2].side = "sell" /\ trade_history[2].quantity = 2
    /\ trade_history[2].price = R(2)
    /\ realized_pnl = R(1)
    /\ "A" \in DOMAIN positions
    /\ positions["A"].quantity = -1
    /\ positions["A"].avg_entry_price = R(2)

\* the cash before the last record of trade_history was appended
CashBeforeLastTrade ==
    IF Len(trade_history) = 1 THEN initial_cash
    ELSE trade_history[Len(trade_history) - 1].cash_after

\* the last fill opened the position its symbol now has (there was none before it)
LastTradeOpened ==
    /\ Len(trade_history) >= 1
    /\ LET t1 == trade_history[Len(trade_history)]
       IN  /\ t1.quantity > 0
           /\ t1.symbol \in DOMAIN positions
           /\ positions[t1.symbol].quantity = SignedOf(t1)
           /\ positions[t1.symbol].avg_entry_price = t1.price

\* C3: a fill that opens a position followed at once by the opposite fill of the same
\* quantity at the same price realizes nothing, removes the position from the map and
\* leaves cash at its value before the pair minus the two commissions.
C3_RoundTrip ==
    [][ (NewTradeCount = 1 /\ LastTradeOpened) =>
          LET t1 == trade_history[Len(trade_history)]
              t2 == NewTrade
          IN  (/\ t2.symbol = t1.symbol
               /\ t2.side # t1.side
               /\ t2.quantity = t1.quantity
               /\ t2.price = t1.price) =>
                  /\ realized_pnl' = realized_pnl
                  /\ t1.symbol \notin DOMAIN positions'
                  /\ cash' = RSub(RSub(CashBeforeLastTrade, t1.commission), t2.commission) ]_vars

\* short 2 at price 2 opened and bought back at 2, one unit of commission each way
C3_Witness ==
    /\ Len(trade_history) = 2
    /\ trade_history[1].symbol = "B" /\ trade_history[2].symbol = "B"
    /\ trade_history[1].side = "sell" /\ trade_history[2].side = "buy"
    /\ trade_history[1].quantity = 2 /\ trade_history[2].quantity = 2
    /\ trade_history[1].price = R(2) /\ trade_history[2].price = R(2)
    /\ trade_history[1].commission = R(1) /\ trade_history[2].commission = R(1)
    /\ "B" \notin DOMAIN positions
    /\ realized_pnl = R(0)
    /\ cash = RSub(initial_cash, R(2))

\* C4: a fill opposite in sign to the position and smaller than it realizes
\* (fill_price - avg_entry_price) * fill quantity, negated for a short position, shrinks
\* the position by the fill quantity without changing its sign, and keeps avg_entry_price.
C4_PartialClose ==
    [][ NewTradeCount = 1 =>
          LET t == NewTrade
              s == t.symbol
              old == SizeIn(positions, s)
              dq == SignedOf(t)
          IN  (/\ t.quantity > 0
               /\ t.quantity < Abs(old)
               /\ (old > 0) # (dq > 0)) =>
                  /\ realized_pnl' =
                        RAdd(realized_pnl,
                             IF old > 0
                             THEN RMul(RSub(t.price, positions[s].avg_entry_price), R(t.quantity))
                             ELSE RMul(RSub(positions[s].avg_entry_price, t.price), R(t.quantity)))
                  /\ s \in DOMAIN positions'
                  /\ Abs(positions'[s].quantity) = Abs(old) - t.quantity
                  /\ (positions'[s].quantity > 0) = (old > 0)
                  /\ positions'[s].avg_entry_price = positions[s].avg_entry_price ]_vars

\* short 2 at price 2, then 1 bought back at price 1: realized (2 - 1) * 1 = 1
C4_Witness ==
    /\ Len(trade_history) = 2
    /\ trade_history[1].symbol = "A" /\ trade_history[2].symbol = "A"
    /\ trade_history[1].side = "sell" /\ trade_history[1].quantity = 2
    /\ trade_history[1].price = R(2)
    /\ trade_history[2].side = "buy" /\ trade_history[2].quantity = 1
    /\ trade_history[2].price = R(1)
    /\ realized_pnl = R(1)
    /\ "A" \in DOMAIN positions
    /\ positions["A"].quantity = -1
    /\ positions["A"].avg_entry_price = R(2)

\* C5: a fill of the same sign as the position adds its quantity to the position's, makes
\* avg_entry_price (old avg * |old qty| + fill_price * |fill qty|) / |new qty| and leaves
\* realized_pnl alone.
C5_Adding ==
    [][ NewTradeCount = 1 =>
          LET t == NewTrade
              s == t.symbol
              old == SizeIn(positions, s)
              dq == SignedOf(t)
          IN  ((old > 0 /\ dq > 0) \/ (old < 0 /\ dq < 0)) =>
                  /\ s \in DOMAIN positions'
                  /\ positions'[s].quantity = old + dq
                  /\ positions'[s].avg_entry_price =
                        RDivInt(RAdd(RMul(positions[s].avg_entry_price, R(Abs(old))),
                                     RMul(t.price, R(Abs(dq)))),
                                Abs(old + dq))
                  /\ realized_pnl' = realized_pnl ]_vars

\* long 1 at price 1 plus 2 at price 2: quantity 3 at average 5/3
C5_Witness ==
    /\ Len(trade_history) = 2
    /\ trade_history[1].side = "buy" /\ trade_history[2].side = "buy"
    /\ "A" \in DOMAIN positions
    /\ positions["A"].quantity = 3
    /\ positions["A"].avg_entry_price = <<5, 3>>
    /\ realized_pnl = R(0)

\* C6: no entry of the position map has quantity 0.
C6_NoZeroQuantityEntry ==
    \A s \in DOMAIN positions : positions[s].quantity # 0

\* C7: portfolio_value is cash plus the sum over the open positions of
\* quantity * current_price, in the initial state and after every process_fill and every
\* update_position_prices; the value recorded by a fill and the equity sample taken by
\* update_position_prices are that sum in the state the call leaves.
C7_PortfolioValue ==
    /\ [](portfolio_value = CashPlusHoldings(cash, positions))
    /\ [][ /\ NewTradeCount = 1 =>
                NewTrade.portfolio_value = CashPlusHoldings(cash', positions')
           /\ Len(equity_history') = Len(equity_history) + 1 =>
                equity_history'[Len(equity_history')][2] = CashPlusHoldings(cash', positions')
       ]_vars

\* two positions, one long and one short, repriced away from their entry price and sampled
C7_Witness ==
    /\ DOMAIN positions = {"A", "B"}
    /\ positions["A"].quantity = 2 /\ positions["B"].quantity = -1
    /\ positions["A"].current_price # positions["A"].avg_entry_price
    /\ positions["B"].current_price # positions["B"].avg_entry_price
    /\ Len(equity_history) = 1
    /\ equity_history[1][2] = portfolio_value

-----------------------------------------------------------------------------
(* BacktestBroker.process_bar *)

\* the step is the call process_bar(symbol, b, timestamp)
IsProcessBar(symbol, b, timestamp) ==
    ProcessBar(symbol, R(b.open), R(b.high), R(b.low), R(b.close), timestamp)

\* the references held in a list of order references
Refs(seq) == {seq[i] : i \in DOMAIN seq}

RECURSIVE SignedSum(_, _)
\* the sum of the signed quantities of records i+1 .. Len(h) of h
SignedSum(h, i) == IF i >= Len(h) THEN 0 ELSE SignedOf(h[i + 1]) + SignedSum(h, i + 1)

\* the step appended a trade record for the fill of order ref at its filled_avg_price
TradeRecordedFor(ref) ==
    \E k \in (Len(trade_history) + 1)..Len(trade_history') :
        /\ trade_history'[k].symbol = order_objs'[ref].symbol
        /\ trade_history'[k].side = order_objs'[ref].side
        /\ trade_history'[k].quantity = order_objs'[ref].quantity
        /\ trade_history'[k].price = order_objs'[ref].filled_avg_price
        /\ trade_history'[k].timestamp = order_objs'[ref].filled_at

\* the step filled order ref in full at the given time and took it out of the open orders
FilledBy(ref, timestamp) ==
    /\ order_objs'[ref].status = "filled"
    /\ order_objs'[ref].filled_quantity = order_objs[ref].quantity
    /\ order_objs'[ref].filled_at = timestamp
    /\ ref \notin Refs(open_orders')
    /\ TradeRecordedFor(ref)

\* the step left order ref as it was, open and unfilled
LeftOpen(ref) ==
    /\ order_objs'[ref] = order_objs[ref]
    /\ order_objs[ref].status = "submitted"
    /\ ref \in Refs(open_orders')

\* a base price with the broker's slippage: plus slippage_percent of it for a buy, minus
\* it for a sell
WithSlippage(price, side) ==
    IF slippage_percent = R(0) THEN price
    ELSE IF side = "buy"
    THEN RMul(price, RDivInt(RAdd(R(100), slippage_percent), 100))
    ELSE RMul(price, RDivInt(RSub(R(100), slippage_percent), 100))

\* C8: every process_bar call fills every open market order of its symbol, so a market
\* order is filled by the first bar of its symbol after it was submitted: in full, at the
\* bar's open price when slippage is zero, whatever high, low and close are; the order
\* leaves the open orders, a trade is recorded for it and the symbol's position size moves
\* by the signed quantities of the orders the call filled.
C8_MarketOrderFill ==
    [][ \A symbol \in Symbols, b \in Bars, timestamp \in Timestamps :
          IsProcessBar(symbol, b, timestamp) =>
             /\ \A ref \in Refs(open_orders) :
                   (order_objs[ref].symbol = symbol /\ order_objs[ref].order_type = "market") =>
                      /\ FilledBy(ref, timestamp)
                      /\ slippage_percent = R(0) =>
                            order_objs'[ref].filled_avg_price = R(b.open)
             /\ SizeIn(positions', symbol) =
                   SizeIn(positions, symbol) + SignedSum(trade_history', Len(trade_history))
      ]_vars

\* a market buy was filled at the open (1) of a bar whose high, low and close differ from
\* it, and the portfolio holds the position
C8_Witness ==
    /\ Len(order_objs) = 1
    /\ order_objs[1].order_type = "market" /\ order_objs[1].side = "buy"
    /\ order_objs[1].status = "filled"
    /\ order_objs[1].filled_avg_price = R(1)
    /\ open_orders = <<>>
    /\ slippage_percent = R(0)
    /\ order_objs[1].symbol \in DOMAIN positions
    /\ positions[order_objs[1].symbol].quantity = order_objs[1].quantity
    /\ positions[order_objs[1].symbol].avg_entry_price = R(1)
    /\ Len(trade_history) = 1

\* C9: on process_bar for its symbol an open buy limit order with limit price P fills iff
\* low <= P, at min(P, open); an open sell limit order fills iff high >= P, at
\* max(P, open); the recorded price is that price with the broker's slippage applied.
C9_LimitOrderFill ==
    [][ \A symbol \in Symbols, b \in Bars, timestamp \in Timestamps :
          IsProcessBar(symbol, b, timestamp) =>
             \A ref \in Refs(open_orders) :
                LET o == order_objs[ref]
                    P == o.limit_price
                IN  (o.symbol = symbol /\ o.order_type = "limit") =>
                       IF o.side = "buy"
                       THEN IF RLe(R(b.low), P)
                            THEN /\ FilledBy(ref, timestamp)
                                 /\ order_objs'[ref].filled_avg_price =
                                       WithSlippage(IF RLe(P, R(b.open)) THEN P ELSE R(b.open),
                                                    "buy")
                            ELSE LeftOpen(ref)
                       ELSE IF RLe(P, R(b.high))
                            THEN /\ FilledBy(ref, timestamp)
                                 /\ order_objs'[ref].filled_avg_price =
                                       WithSlippage(IF RLe(R(b.open), P) THEN P ELSE R(b.open),
                                                    "sell")
                            ELSE LeftOpen(ref)
      ]_vars

\* a buy limit at 2 was filled at 1 by a bar that opened at 1, below the limit, and a sell
\* limit at 2 is still open after it (the first order filled at a time the second, of the
\* same symbol, was not yet submitted or not reached by the bar's high)
C9_Witness ==
    /\ Len(order_objs) = 2
    /\ order_objs[1].order_type = "limit" /\ order_objs[1].side = "buy"
    /\ order_objs[1].limit_price = R(2)
    /\ order_objs[1].status = "filled"
    /\ order_objs[1].filled_avg_price = R(1)
    /\ order_objs[2].order_type = "limit" /\ order_objs[2].side = "sell"
    /\ order_objs[2].symbol = order_objs[1].symbol
    /\ order_objs[2].limit_price = R(2)
    /\ order_objs[2].status = "submitted"
    /\ open_orders = <<2>>
    /\ Len(trade_history) = 1

\* C10: on process_bar for its symbol an open buy stop order with stop price S fills iff
\* high >= S, at max(S, open); an open sell stop order fills iff low <= S, at
\* min(S, open); the recorded price is that price with the broker's slippage applied.
C10_StopOrderFill ==
    [][ \A symbol \in Symbols, b \in Bars, timestamp \in Timestamps :
          IsProcessBar(symbol, b, timestamp) =>
             \A ref \in Refs(open_orders) :
                LET o == order_objs[ref]
                    S == o.stop_price
                IN  (o.symbol = symbol /\ o.order_type = "stop") =>
                       IF o.side = "buy"
                       THEN IF RLe(S, R(b.high))
                            THEN /\ FilledBy(ref, timestamp)
                                 /\ order_objs'[ref].filled_avg_price =
                                       WithSlippage(IF RLe(R(b.open), S) THEN S ELSE R(b.open),
                                                    "buy")
                            ELSE LeftOpen(ref)
                       ELSE IF RLe(R(b.low), S)
                            THEN /\ FilledBy(ref, timestamp)
                                 /\ order_objs'[ref].filled_avg_price =
                                       WithSlippage(IF RLe(S, R(b.open)) THEN S ELSE R(b.open),
                                                    "sell")
                            ELSE LeftOpen(ref)
      ]_vars

\* a buy stop at 1 was filled at 2 by a bar that opened at 2, above the stop, and a sell
\* stop at 1 was filled at 1 (zero slippage)
C10_Witness ==
    /\ Len(order_objs) = 2
    /\ slippage_percent = R(0)
    /\ order_objs[1].order_type = "stop" /\ order_objs[1].side = "buy"
    /\ order_objs[1].stop_price = R(1)
    /\ order_objs[1].status = "filled"
    /\ order_objs[1].filled_avg_price = R(2)
    /\ order_objs[2].order_type = "stop" /\ order_objs[2].side = "sell"
    /\ order_objs[2].stop_price = R(1)
    /\ order_objs[2].status = "filled"
    /\ order_objs[2].filled_avg_price = R(1)
    /\ open_orders = <<>>

-----------------------------------------------------------------------------
(* BacktestBroker: open orders, cancel_order, get_fill_events, submit_order *)

\* the bar b meets the fill condition of the limit or stop order o
ConditionMet(o, b) ==
    IF o.order_type = "limit"
    THEN IF o.side = "buy" THEN RLe(R(b.low), o.limit_price) ELSE RLe(o.limit_price, R(b.high))
    ELSE IF o.side = "buy" THEN RLe(o.stop_price, R(b.high)) ELSE RLe(R(b.low), o.stop_price)

\* the fill events the step enqueued
NewFillEvents == SubSeq(fill_events', Len(fill_events) + 1, Len(fill_events'))

\* the orders the step filled
NewlyFilled ==
    {ref \in DOMAIN order_objs :
        order_objs[ref].status # "filled" /\ order_objs'[ref].status = "filled"}

\* C11: a process_bar call whose bar does not meet the fill condition of an open limit or
\* stop order of its symbol leaves that order as it was, in the open orders with status
\* submitted, and enqueues no fill event for it; the call records one trade and one fill
\* event per order it fills and none besides; a bar of the symbol that meets the
\* condition of an order still open fills it.
C11_UnmetOrderStaysOpen ==
    [][ \A symbol \in Symbols, b \in Bars, timestamp \in Timestamps :
          IsProcessBar(symbol, b, timestamp) =>
             /\ \A ref \in Refs(open_orders) :
                   (/\ order_objs[ref].symbol = symbol
                    /\ order_objs[ref].order_type \in {"limit", "stop"}) =>
                      IF ConditionMet(order_objs[ref], b)
                      THEN FilledBy(ref, timestamp)
                      ELSE /\ LeftOpen(ref)
                           /\ \A k \in DOMAIN NewFillEvents : NewFillEvents[k].order # ref
             /\ NewTradeCount = Cardinality(NewlyFilled)
             /\ Len(NewFillEvents) = Cardinality(NewlyFilled)
             /\ fill_events' = fill_events \o NewFillEvents ]_vars

\* the ids a strategy passes to cancel_order and get_order: those given out and unknown ones
OrderIds == 1..MaxOrders

\* the order registered under order_id can be canceled: it is pending or submitted
Cancelable(order_id) ==
    /\ order_id \in DOMAIN orders
    /\ order_objs[orders[order_id]].status \in {"pending", "submitted"}

\* C12: cancel_order(id) returns true exactly when id is known and its order is pending or
\* submitted; it then sets the order's status to canceled and takes it out of the open
\* orders, touching nothing else, so that a second cancel of the id returns false; in
\* every other case it returns false and changes no broker or portfolio state.
C12_CancelOrder ==
    /\ [](\A order_id \in OrderIds : CancelResult(order_id) <=> Cancelable(order_id))
    /\ [][ \A order_id \in OrderIds :
             CancelOrder(order_id) =>
                IF Cancelable(order_id)
                THEN LET ref == orders[order_id]
                     IN  /\ CancelResult(order_id)
                         /\ order_objs'[ref].status = "canceled"
                         /\ ref \notin Refs(open_orders')
                         /\ \A r \in DOMAIN order_objs : r # ref => order_objs'[r] = order_objs[r]
                         /\ \A r \in Refs(open_orders) : r # ref => r \in Refs(open_orders')
                         /\ UNCHANGED <<orders, fill_events, returned_events>>
                         /\ UNCHANGED pvars
                         /\ ~CancelResult(order_id)'
                ELSE ~CancelResult(order_id) /\ UNCHANGED vars ]_vars

\* the fill event e reports the fill recorded as trade record t
EventOfTrade(e, t) ==
    /\ e.order \in DOMAIN order_objs
    /\ order_objs[e.order].symbol = t.symbol
    /\ order_objs[e.order].side = t.side
    /\ e.fill_quantity = t.quantity
    /\ e.fill_price = t.price
    /\ e.commission = t.commission
    /\ e.timestamp = t.timestamp

\* C13: get_fill_events returns the queued fill events in the order they were enqueued and
\* leaves the queue empty, and over any interleaving of process_bar and get_fill_events
\* calls the events returned so far followed by the events still queued are the fills made
\* so far, one event per fill in fill order: no event is returned twice and none is lost.
C13_FillEventsOnce ==
    /\ [](/\ Len(returned_events) + Len(fill_events) = Len(trade_history)
          /\ \A k \in DOMAIN trade_history :
                EventOfTrade((returned_events \o fill_events)[k], trade_history[k]))
    /\ [][ GetFillEvents =>
             /\ returned_events' = returned_events \o fill_events
             /\ fill_events' = <<>> ]_vars

\* a fill event was returned by a call and another one was enqueued after that call
C13_Witness ==
    /\ Len(returned_events) = 1
    /\ Len(fill_events) = 1
    /\ returned_events[1].order # fill_events[1].order

\* C15: submit_order gives the order an id no other order has, sets its status to
\* submitted and appends it to the open orders, whose count grows by one, and registers it
\* so that get_order(id) returns it; the orders registered before stay registered.
C15_SubmitOrder ==
    [][ Len(order_objs') = Len(order_objs) + 1 =>
          LET ref == Len(order_objs')
              id == order_objs'[ref].order_id
          IN  /\ id # NoOrderId
              /\ id \notin DOMAIN orders
              /\ \A r \in DOMAIN order_objs : order_objs'[r].order_id # id
              /\ order_objs'[ref].status = "submitted"
              /\ open_orders' = Append(open_orders, ref)
              /\ Len(open_orders') = Len(open_orders) + 1
              /\ \E i \in OrderIds : i = id /\ get_order(i)' = ref
              /\ \A i \in DOMAIN orders : get_order(i)' = get_order(i) ]_vars

\* two orders were submitted and are both registered and open under different ids
C15_Witness ==
    /\ Len(order_objs) = 2
    /\ Len(open_orders) = 2
    /\ order_objs[1].order_id # order_objs[2].order_id
    /\ get_order(order_objs[1].order_id) = 1
    /\ get_order(order_objs[2].order_id) = 2

-----------------------------------------------------------------------------
(* BacktestBroker: the order lifecycle, with orders submitted more than once *)

\* BacktestBroker.submit_order for an Order object that was submitted before, as a strategy
\* does that passes an order it holds to StrategyContext.submit_order: the object gets a
\* new id and status submitted whatever its status was, and is registered and appended to
\* the open orders once more
ResubmitOrder(ref) ==
    /\ Len(orders) < MaxOrders
    /\ ref \in DOMAIN order_objs
    /\ LET id == Len(orders) + 1
       IN  /\ order_objs' = [order_objs EXCEPT ![ref] = Submitted(order_objs[ref], id)]
           /\ orders' = Append(orders, ref)
           /\ open_orders' = Append(open_orders, ref)
    /\ UNCHANGED <<commission_per_share, slippage_percent, fill_events, returned_events>>
    /\ UNCHANGED pvars

\* the broker driven by a strategy that also resubmits orders it holds
NextResubmit ==
    \/ \E symbol \in Symbols, side \in Sides, quantity \in 1..MaxOrderQty, o \in OrderInputs :
          /\ Len(orders) < MaxOrders
          /\ SubmitOrder(symbol, side, quantity, o[1], o[2], o[3])
          /\ UNCHANGED <<evars, last_call>>
    \/ \E ref \in 1..MaxOrders : ResubmitOrder(ref) /\ UNCHANGED <<evars, last_call>>
    \/ \E symbol \in Symbols, b \in Bars, timestamp \in Timestamps :
          ProcessBar(symbol, R(b.open), R(b.high), R(b.low), R(b.close), timestamp)
             /\ UNCHANGED <<evars, last_call>>
    \/ \E order_id \in OrderIds : CancelOrder(order_id) /\ UNCHANGED <<evars, last_call>>
    \/ GetFillEvents /\ UNCHANGED <<evars, last_call>>

SpecResubmit == InitBrokerAndPortfolio /\ [][NextResubmit]_vars

\* the statuses after which, by the lifecycle, nothing more happens to an order
TerminalStatuses == {"filled", "canceled", "rejected"}

\* C14: an order's status changes only from pending to submitted (an order appears in the
\* broker as submitted), from submitted to filled and from pending or submitted to
\* canceled; once filled, canceled or rejected its status stays and it does not come back
\* into the open orders; no order is ever partially_filled and a filled order has
\* filled_quantity = quantity.
C14_OrderLifecycle ==
    /\ [](\A ref \in DOMAIN order_objs :
             /\ order_objs[ref].status # "partially_filled"
             /\ order_objs[ref].status = "filled" =>
                   order_objs[ref].filled_quantity = order_objs[ref].quantity)
    /\ [][ /\ \A ref \in DOMAIN order_objs' \ DOMAIN order_objs :
                order_objs'[ref].status = "submitted"
           /\ \A ref \in DOMAIN order_objs :
                LET old == order_objs[ref].status
                    new == order_objs'[ref].status
                IN  /\ new # old =>
                          \/ old = "pending" /\ new = "submitted"
                          \/ old = "submitted" /\ new = "filled"
                          \/ old \in {"pending", "submitted"} /\ new = "canceled"
                    /\ old \in TerminalStatuses =>
                          /\ new = old
                          /\ ref \notin Refs(open_orders) => ref \notin Refs(open_orders') ]_vars

-----------------------------------------------------------------------------
(* The broker's trading switch.  BacktestEngine.run calls                   *)
(* self.broker.disable_trading() and self.broker.enable_trading()           *)
(* (engine.py, lines 147 and 153) on the BacktestBroker it constructed.     *)

\* the methods class BacktestBroker defines
BrokerMethods ==
    {"__init__", "submit_order", "process_bar", "cancel_order", "get_order", "get_open_orders",
     "get_positions", "get_position", "get_fill_events"}

\* whether a call of the named method on a BacktestBroker finds the method; a call of a
\* method the class does not define raises AttributeError
HasMethod(name) == name \in BrokerMethods

\* a call broker.disable_trading(): BacktestBroker has no such method, the call raises
\* AttributeError and the broker is as before
DisableTrading ==
    /\ ~HasMethod("disable_trading")
    /\ last_call' = [call |-> "disable_trading", args |-> <<>>,
                     result |-> Raised("AttributeError")]
    /\ UNCHANGED bvars
    /\ UNCHANGED pvars

\* a call broker.enable_trading(): BacktestBroker has no such method, the call raises
\* AttributeError and the broker is as before
EnableTrading ==
    /\ ~HasMethod("enable_trading")
    /\ last_call' = [call |-> "enable_trading", args |-> <<>>,
                     result |-> Raised("AttributeError")]
    /\ UNCHANGED bvars
    /\ UNCHANGED pvars

\* a broker with the defaults of its constructor (no commission, no slippage)
InitSwitch ==
    /\ InitBrokerAndPortfolio
    /\ commission_per_share = R(0)
    /\ slippage_percent = R(0)

\* the broker driven by a strategy, a bar feed and a caller that calls disable_trading and
\* enable_trading the way BacktestEngine.run does
NextSwitch ==
    \/ \E symbol \in Symbols, side \in Sides, quantity \in 1..MaxOrderQty, o \in OrderInputs :
          SubmitOrder(symbol, side, quantity, o[1], o[2], o[3]) /\ UNCHANGED <<evars, last_call>>
    \/ \E symbol \in Symbols, b \in Bars, timestamp \in Timestamps :
          ProcessBar(symbol, R(b.open), R(b.high), R(b.low), R(b.close), timestamp)
             /\ UNCHANGED <<evars, last_call>>
    \/ \E order_id \in OrderIds : CancelOrder(order_id) /\ UNCHANGED <<evars, last_call>>
    \/ GetFillEvents /\ UNCHANGED <<evars, last_call>>
    \/ DisableTrading /\ UNCHANGED evars
    \/ EnableTrading /\ UNCHANGED evars

SpecSwitch == InitSwitch /\ [][NextSwitch]_vars

\* C16: the broker has a switch that turns trading off and on: a call of disable_trading
\* or of enable_trading returns without an error; and while trading is disabled, from a
\* call of disable_trading until the next call of enable_trading, no step, process_bar
\* included, fills an order, records a trade, enqueues a fill event or changes cash,
\* positions or realized P&L.
C16_TradingSwitch ==
    [][ /\ last_call'.call \in {"disable_trading", "enable_trading"} =>
              last_call'.result.kind = "value"
        /\ (last_call.call = "disable_trading" /\ last_call' = last_call) =>
              /\ NewlyFilled = {}
              /\ \A ref \in DOMAIN order_objs :
                    order_objs'[ref].filled_quantity = order_objs[ref].filled_quantity
              /\ trade_history' = trade_history
              /\ fill_events' \in {fill_events, <<>>}
              /\ UNCHANGED <<cash, positions, realized_pnl>> ]_vars

-----------------------------------------------------------------------------
(* BacktestEngine: src/paperhands/backtest/engine.py *)

\* largest timestamp of a bar the data provider returns
MaxEngineTime == 2

EngineTimes == 1..MaxEngineTime

\* the start_date given to the constructor: the timestamp of the first bar the provider
\* may return (no warmup) or a later one (the bars before it are warmup bars)
StartDates == EngineTimes

\* the order in which the data provider's dict lists the symbols
SymbolOrder == <<"A", "B">>

\* the bars of the data provider used in a run: a flat bar at the top price and a bar that
\* opens at the lowest price and rises
EngineBars ==
    {b \in Bars : \/ b.low = MaxPrice
                  \/ b.open = 1 /\ b.low = 1 /\ b.high = MaxPrice /\ b.close = MaxPrice}

\* what get_bars_multi returns: per symbol its bars by timestamp, possibly none
ProviderData ==
    [Symbols -> UNION {[T -> EngineBars] : T \in SUBSET EngineTimes}]

\* load_data, line 113: self.bars_by_time[bar.timestamp][symbol] = bar on the dict of one
\* timestamp, kept as the list of its items: a symbol already there keeps its place and
\* gets the new bar, a new symbol is added at the end
SetBar(items, symbol, bar) ==
    IF \E k \in DOMAIN items : items[k].symbol = symbol
    THEN [k \in DOMAIN items |->
             IF items[k].symbol = symbol THEN [symbol |-> symbol, bar |-> bar] ELSE items[k]]
    ELSE Append(items, [symbol |-> symbol, bar |-> bar])

\* load_data, lines 109-113, for one timestamp: the bars of the symbols from the k-th of
\* bars_dict.items() on are put into the dict of the timestamp
RECURSIVE SetBars(_, _, _, _)
SetBars(items, bars_dict, t, k) ==
    IF k > Len(SymbolOrder) THEN items
    ELSE LET symbol == SymbolOrder[k]
         IN  SetBars(IF t \in DOMAIN bars_dict[symbol]
                     THEN SetBar(items, symbol, bars_dict[symbol][t]) ELSE items,
                     bars_dict, t, k + 1)

\* BacktestEngine.load_data: the bars the provider returned are added to the bars already
\* in bars_by_time, grouped by timestamp, then by symbol
load_data(loaded, bars_dict) ==
    LET times == DOMAIN loaded \cup UNION {DOMAIN bars_dict[s] : s \in DOMAIN bars_dict}
    IN  [t \in times |->
            SetBars(IF t \in DOMAIN loaded THEN loaded[t] ELSE <<>>, bars_dict, t, 1)]

\* the dict of timestamp t: symbol -> Bar
BarsAt(t) ==
    [s \in {bars_by_time[t][k].symbol : k \in DOMAIN bars_by_time[t]} |->
        LET k == CHOOSE i \in DOMAIN bars_by_time[t] : bars_by_time[t][i].symbol = s
        IN  bars_by_time[t][k].bar]

\* run: warmup_timestamps and live_timestamps
WarmupTimes == {t \in DOMAIN bars_by_time : t < start_date}
LiveTimes == {t \in DOMAIN bars_by_time : t >= start_date}

\* the first timestamp of T after t (NoTimestamp when there is none); T is walked in
\* sorted order
NextTime(T, t) ==
    IF \E x \in T : x > t
    THEN CHOOSE x \in T : x > t /\ \A y \in T : y > t => x <= y
    ELSE NoTimestamp

\* bars.items() at timestamp t: the symbols that have a bar, in the order in which they
\* were put into the dict of the timestamp
SymbolsAt(t) == [k \in DOMAIN bars_by_time[t] |-> bars_by_time[t][k].symbol]

\* the bar and the symbol run works on
CurrentTime == cursor[1]
CurrentSymbol == SymbolsAt(cursor[1])[cursor[2]]
CurrentBar == BarsAt(cursor[1])[CurrentSymbol]

\* one strategy callback as the strategy sees it
Callback(name, symbol, timestamp, order) ==
    [name |-> name, symbol |-> symbol, timestamp |-> timestamp, order |-> order]

\* a slip of run: a failed load is not noticed
RunOutcome_NoCheck(loaded) == "started"

\* run, lines 130-131: ValueError when no bar was loaded
RunOutcome(loaded) == IF DOMAIN loaded = {} THEN "failed" ELSE "started"

\* where run goes when it enters the live loop
EnterLive ==
    IF LiveTimes = {}
    THEN pc' = "stopping" /\ cursor' = <<NoTimestamp, 0>>
    ELSE pc' = "mark" /\ cursor' = <<NextTime(LiveTimes, 0), 1>>

\* BacktestEngine.__init__: a fresh portfolio and broker, nothing loaded
InitEngine ==
    /\ InitPortfolio
    /\ InitBroker
    /\ commission_per_share = R(0)
    /\ slippage_percent = R(0)
    /\ start_date \in StartDates
    /\ bars_by_time = <<>>
    /\ pc = "ready"
    /\ cursor = <<NoTimestamp, 0>>
    /\ callbacks = <<>>
    /\ NoCall

\* the orders the strategy of a run places, as <<side, order_type, limit_price,
\* stop_price>>: market orders either way and limit buys at the lowest price
EngineOrderInputs ==
    {<<side, o[1], o[2], o[3]>> : side \in Sides, o \in OrderInputs} \cap
    {x \in Sides \X OrderTypes \X ({NoPrice} \cup {R(p) : p \in Prices})
                                \X ({NoPrice} \cup {R(p) : p \in Prices}) :
        x[2] = "market" \/ (x[1] = "buy" /\ x[2] = "limit" /\ x[3] = R(1))}

\* the most calls a strategy makes on its context in one callback
MaxCalls == 2

\* the broker's books a context call works on: the Order objects, self.orders and
\* self.open_orders
Book == [objs |-> order_objs, orders |-> orders, open |-> open_orders]

\* the calls a strategy can make on its StrategyContext when the broker's books are b: buy
\* or sell (a new Order), submit_order with an Order it holds, cancel_order with an id whose
\* order can be canceled
ContextCalls(b) ==
    {[op |-> "order", symbol |-> symbol, input |-> o, ref |-> 0, order_id |-> 0] :
        symbol \in {x \in Symbols : Len(b.objs) < MaxOrders /\ Len(b.orders) < MaxOrders},
        o \in EngineOrderInputs}
    \cup {[op |-> "submit_order", symbol |-> "", input |-> <<>>, ref |-> ref,
           order_id |-> 0] : ref \in {x \in DOMAIN b.objs : Len(b.orders) < MaxOrders}}
    \cup {[op |-> "cancel_order", symbol |-> "", input |-> <<>>, ref |-> 0,
           order_id |-> order_id] :
             order_id \in {x \in DOMAIN b.orders :
                              b.objs[b.orders[x]].status \in {"submitted", "pending"}}}

\* the broker's books after the call: StrategyContext.buy and sell construct an Order and
\* pass it to BacktestBroker.submit_order, StrategyContext.submit_order passes the Order it
\* is given, StrategyContext.cancel_order calls BacktestBroker.cancel_order
AfterCall(b, call) ==
    IF call.op = "order"
    THEN LET ref == Len(b.objs) + 1
             order == Order(call.symbol, call.input[1], 1, call.input[2], call.input[3],
                            call.input[4])
         IN  [objs |-> Append(b.objs, Submitted(order, Len(b.orders) + 1)),
              orders |-> Append(b.orders, ref),
              open |-> Append(b.open, ref)]
    ELSE IF call.op = "submit_order"
    THEN [objs |-> [b.objs EXCEPT ![call.ref] = Submitted(b.objs[call.ref], Len(b.orders) + 1)],
          orders |-> Append(b.orders, call.ref),
          open |-> Append(b.open, call.ref)]
    ELSE LET ref == b.orders[call.order_id]
         IN  [objs |-> [b.objs EXCEPT ![ref].status = "canceled"],
              orders |-> b.orders,
              open |-> RemoveFirst(b.open, ref)]

RECURSIVE AfterCalls(_, _)
\* the books a strategy can leave behind with at most n calls, starting from b
AfterCalls(b, n) ==
    IF n = 0 THEN {b}
    ELSE {b} \cup UNION {AfterCalls(AfterCall(b, call), n - 1) : call \in ContextCalls(b)}

\* what a strategy does with its context in a callback (on_start, on_bar, on_fill or
\* on_stop): up to MaxCalls calls of buy, sell, submit_order and cancel_order
StrategyCallback ==
    /\ \E b \in AfterCalls(Book, MaxCalls) :
          /\ order_objs' = b.objs
          /\ orders' = b.orders
          /\ open_orders' = b.open
    /\ UNCHANGED <<commission_per_share, slippage_percent, fill_events, returned_events>>
    /\ UNCHANGED pvars

\* a slip of run: on_start is not called
RunLoad_NoStart(bars_dict) ==
    /\ pc = "ready"
    /\ bars_by_time' = load_data(bars_by_time, bars_dict)
    /\ pc' = RunOutcome(bars_by_time')
    /\ callbacks' = callbacks
    /\ UNCHANGED <<start_date, cursor>>
    /\ UNCHANGED bvars
    /\ UNCHANGED pvars

\* BacktestEngine.load_data called by the engine's user before run: the provider's bars
\* are added to bars_by_time, nothing else happens
LoadData(bars_dict) ==
    /\ pc = "ready"
    /\ bars_by_time' = load_data(bars_by_time, bars_dict)
    /\ UNCHANGED <<start_date, pc, cursor, callbacks>>
    /\ UNCHANGED bvars
    /\ UNCHANGED pvars

\* run, lines 128-134: load_data, the check for loaded bars, on_start
RunLoad(bars_dict) ==
    /\ pc = "ready"
    /\ bars_by_time' = load_data(bars_by_time, bars_dict)
    /\ pc' = RunOutcome(bars_by_time')
    /\ IF pc' = "failed"
       THEN /\ callbacks' = callbacks
            /\ UNCHANGED bvars
            /\ UNCHANGED pvars
       ELSE /\ callbacks' = Append(callbacks, Callback("on_start", "", NoTimestamp, 0))
            /\ StrategyCallback
    /\ UNCHANGED <<start_date, cursor>>

\* run, lines 137-147: the timestamps are sorted and split; without warmup timestamps the
\* live loop is entered; with them self.broker.disable_trading() is called, which raises
\* AttributeError (BacktestBroker has no such method): run ends there, after on_start and
\* before the first warmup on_bar
RunSplit ==
    /\ pc = "started"
    /\ IF WarmupTimes # {}
       THEN /\ ~HasMethod("disable_trading")
            /\ pc' = "error"
            /\ UNCHANGED cursor
       ELSE EnterLive
    /\ UNCHANGED bvars
    /\ UNCHANGED pvars
    /\ UNCHANGED <<start_date, bars_by_time, callbacks>>

\* run, lines 148-152: one on_bar of the warmup loop; the loop comes after the call of
\* disable_trading, so no run gets to it
WarmupOnBar ==
    /\ pc = "warmup"
    /\ callbacks' = Append(callbacks, Callback("on_bar", CurrentSymbol, CurrentTime, 0))
    /\ StrategyCallback
    /\ IF cursor[2] < Len(SymbolsAt(CurrentTime))
       THEN pc' = pc /\ cursor' = <<CurrentTime, cursor[2] + 1>>
       ELSE IF NextTime(WarmupTimes, CurrentTime) # NoTimestamp
       THEN pc' = pc /\ cursor' = <<NextTime(WarmupTimes, CurrentTime), 1>>
       ELSE pc' = "warmup_done" /\ cursor' = <<NoTimestamp, 0>>
    /\ UNCHANGED <<start_date, bars_by_time>>

\* run, line 153: self.broker.enable_trading() after the warmup loop raises AttributeError
\* (BacktestBroker has no such method); like the warmup loop it is behind the call of
\* disable_trading
WarmupEnd ==
    /\ pc = "warmup_done"
    /\ ~HasMethod("enable_trading")
    /\ pc' = "error"
    /\ UNCHANGED cursor
    /\ UNCHANGED bvars
    /\ UNCHANGED pvars
    /\ UNCHANGED <<start_date, bars_by_time, callbacks>>

\* a slip of run: the first symbol of a live timestamp gets its on_bar without process_bar
LiveMark_ToOnBar ==
    /\ pc = "mark"
    /\ UpdatePositionPrices([s \in DOMAIN BarsAt(CurrentTime) |->
                                R(BarsAt(CurrentTime)[s].close)], CurrentTime)
    /\ pc' = "on_bar"
    /\ UNCHANGED <<start_date, bars_by_time, cursor, callbacks>>

\* run, lines 159-165: a live timestamp begins with update_position_prices on the closes
LiveMark ==
    /\ pc = "mark"
    /\ UpdatePositionPrices([s \in DOMAIN BarsAt(CurrentTime) |->
                                R(BarsAt(CurrentTime)[s].close)], CurrentTime)
    /\ pc' = "bar"
    /\ UNCHANGED <<start_date, bars_by_time, cursor, callbacks>>

\* run, lines 168-177: process_bar for the symbol's bar
LiveProcessBar ==
    /\ pc = "bar"
    /\ ProcessBar(CurrentSymbol, R(CurrentBar.open), R(CurrentBar.high), R(CurrentBar.low),
                  R(CurrentBar.close), CurrentTime)
    /\ pc' = "on_bar"
    /\ UNCHANGED <<start_date, bars_by_time, cursor, callbacks>>

\* run, line 180: on_bar for the symbol's bar
LiveOnBar ==
    /\ pc = "on_bar"
    /\ callbacks' = Append(callbacks, Callback("on_bar", CurrentSymbol, CurrentTime, 0))
    /\ StrategyCallback
    /\ IF cursor[2] < Len(SymbolsAt(CurrentTime))
       THEN pc' = "bar" /\ cursor' = <<CurrentTime, cursor[2] + 1>>
       ELSE pc' = "fills" /\ cursor' = cursor
    /\ UNCHANGED <<start_date, bars_by_time>>

\* a slip of run: only the first of the returned fill events is dispatched
Dispatched_FirstOnly(events) ==
    [k \in DOMAIN events \cap {1} |->
        Callback("on_fill", order_objs[events[k].order].symbol, events[k].timestamp,
                 events[k].order)]

\* a slip of run: the fill events are dispatched last first
Dispatched_Reversed(events) ==
    [k \in DOMAIN events |->
        Callback("on_fill", order_objs[events[Len(events) + 1 - k].order].symbol,
                 events[Len(events) + 1 - k].timestamp, events[Len(events) + 1 - k].order)]

\* run, lines 184-185: on_fill for each event get_fill_events returned, in order
Dispatched(events) ==
    [k \in DOMAIN events |->
        Callback("on_fill", order_objs[events[k].order].symbol, events[k].timestamp,
                 events[k].order)]

\* where run goes when it is through with a live timestamp
LeaveTimestamp ==
    IF NextTime(LiveTimes, CurrentTime) # NoTimestamp
    THEN pc' = "mark" /\ cursor' = <<NextTime(LiveTimes, CurrentTime), 1>>
    ELSE pc' = "stopping" /\ cursor' = <<NoTimestamp, 0>>

\* run, line 183: after the last symbol of the timestamp, get_fill_events; with no event
\* the timestamp is over
LiveFills ==
    /\ pc = "fills"
    /\ GetFillEvents
    /\ IF Dispatched(get_fill_events(fill_events).events) = <<>>
       THEN LeaveTimestamp
       ELSE pc' = "on_fill" /\ cursor' = <<CurrentTime, 1>>
    /\ UNCHANGED <<start_date, bars_by_time, callbacks>>

\* run, line 183: the list get_fill_events returned for the timestamp being processed
ReturnedNow == SelectSeq(returned_events, LAMBDA e : e.timestamp = CurrentTime)

\* run, lines 184-185: one on_fill of the loop over the returned events
LiveOnFill ==
    /\ pc = "on_fill"
    /\ callbacks' = Append(callbacks, Dispatched(ReturnedNow)[cursor[2]])
    /\ StrategyCallback
    /\ IF cursor[2] < Len(Dispatched(ReturnedNow))
       THEN pc' = pc /\ cursor' = <<CurrentTime, cursor[2] + 1>>
       ELSE LeaveTimestamp
    /\ UNCHANGED <<start_date, bars_by_time>>

\* run, lines 188-199: on_stop, then the analytics are built and returned
RunStop ==
    /\ pc = "stopping"
    /\ callbacks' = Append(callbacks, Callback("on_stop", "", NoTimestamp, 0))
    /\ StrategyCallback
    /\ pc' = "done"
    /\ UNCHANGED <<start_date, bars_by_time, cursor>>

NextEngine ==
    \/ \E bars_dict \in ProviderData : LoadData(bars_dict) /\ UNCHANGED last_call
    \/ \E bars_dict \in ProviderData : RunLoad(bars_dict) /\ UNCHANGED last_call
    \/ RunSplit /\ UNCHANGED last_call
    \/ LiveMark /\ UNCHANGED last_call
    \/ LiveProcessBar /\ UNCHANGED last_call
    \/ LiveOnBar /\ UNCHANGED last_call
    \/ LiveFills /\ UNCHANGED last_call
    \/ LiveOnFill /\ UNCHANGED last_call
    \/ RunStop /\ UNCHANGED last_call

\* one run of a BacktestEngine
SpecEngine == InitEngine /\ [][NextEngine]_vars

-----------------------------------------------------------------------------
(* BacktestEngine.run: warmup, missing data, fill callbacks *)

\* run has ended: it has returned its analytics or an exception has left it
RunEnded == pc \in {"done", "failed", "error"}

C19_NoData ==
    /\ [][ (pc = "ready" /\ pc' # "ready") =>
             /\ (DOMAIN bars_by_time' = {}) <=> (pc' = "failed")
             /\ pc' = "failed" =>
                   /\ callbacks' = <<>>
                   /\ UNCHANGED bvars
                   /\ UNCHANGED pvars ]_vars
    /\ [][ pc # "failed" ]_vars

\* the provider had no bar for any symbol and run has failed
C19_Witness ==
    /\ pc = "failed"
    /\ DOMAIN bars_by_time = {}
    /\ callbacks = <<>>
    /\ cash = initial_cash

\* the on_fill callbacks made so far
OnFills == SelectSeq(callbacks, LAMBDA c : c.name = "on_fill")

\* the fill events that have not had their on_fill yet: the broker's queue, or what is
\* left of the list run took from it
Undelivered ==
    IF pc = "on_fill" THEN SubSeq(ReturnedNow, cursor[2], Len(ReturnedNow)) ELSE fill_events

\* the order was handed to the broker once: it is registered under one id, the one it
\* carries
SubmittedOnce(ref) ==
    /\ ref \in DOMAIN order_objs
    /\ Cardinality({id \in DOMAIN orders : orders[id] = ref}) = 1

\* C20 as stated: on_fill is called once per fill and the calls come in submission order:
\* of two orders that were each submitted once and both fill, the one submitted first (the
\* lower order id) gets its on_fill first
C20_SubmissionOrder ==
    \A i, j \in DOMAIN OnFills :
       (/\ i < j
        /\ SubmittedOnce(OnFills[i].order)
        /\ SubmittedOnce(OnFills[j].order))
          => order_objs[OnFills[i].order].order_id < order_objs[OnFills[j].order].order_id

\* C20, amended: on_fill is called exactly once for each fill, in the order in which the
\* fills happened (the order of trade_history): the calls made so far and the events still
\* queued account for every fill, every fill of a finished timestamp has had its call
\* (call k is for fill k: its timestamp, its symbol, an order of its side), an order that
\* was submitted once has one call at most, and among the orders submitted once that one
\* process_bar call filled the one submitted first comes first.
C20_FillOrder ==
    /\ Len(OnFills) + Len(Undelivered) = Len(trade_history)
    /\ pc \in {"mark", "stopping", "done"} => Len(OnFills) = Len(trade_history)
    /\ \A k \in DOMAIN OnFills :
          /\ k <= Len(trade_history)
          /\ OnFills[k].timestamp = trade_history[k].timestamp
          /\ OnFills[k].symbol = trade_history[k].symbol
          /\ order_objs[OnFills[k].order].side = trade_history[k].side
          /\ SubmittedOnce(OnFills[k].order) =>
                order_objs[OnFills[k].order].filled_avg_price = trade_history[k].price
    /\ \A i, j \in DOMAIN OnFills :
          (SubmittedOnce(OnFills[i].order) /\ SubmittedOnce(OnFills[j].order)) =>
             /\ i # j => OnFills[i].order # OnFills[j].order
             /\ (/\ i < j
                 /\ OnFills[i].timestamp = OnFills[j].timestamp
                 /\ OnFills[i].symbol = OnFills[j].symbol)
                   => order_objs[OnFills[i].order].order_id
                         < order_objs[OnFills[j].order].order_id

\* a run has ended in which, of two orders submitted once each, the one submitted second
\* got its on_fill before the one submitted first
C20_Witness ==
    /\ pc = "done"
    /\ Len(OnFills) = 2
    /\ SubmittedOnce(OnFills[1].order)
    /\ SubmittedOnce(OnFills[2].order)
    /\ order_objs[OnFills[1].order].order_id = 2
    /\ order_objs[OnFills[2].order].order_id = 1

-----------------------------------------------------------------------------
(* BacktestEngine.run: the order of the callbacks and of the engine's steps *)

\* the on_bar callbacks made so far
OnBars == SelectSeq(callbacks, LAMBDA c : c.name = "on_bar")

\* C21: on_bar is called only for (symbol, timestamp) pairs that have a loaded bar, at most
\* once per pair, with timestamps in ascending order, and two symbols never come in one
\* order at one timestamp and in the other order at another; when the run has ended every
\* loaded pair, warmup or live, has had its on_bar.
C21_OnBarOnce ==
    /\ \A k \in DOMAIN OnBars :
          /\ OnBars[k].timestamp \in DOMAIN bars_by_time
          /\ OnBars[k].symbol \in DOMAIN BarsAt(OnBars[k].timestamp)
    /\ \A i, j \in DOMAIN OnBars :
          /\ i # j => <<OnBars[i].symbol, OnBars[i].timestamp>>
                         # <<OnBars[j].symbol, OnBars[j].timestamp>>
          /\ i < j => OnBars[i].timestamp <= OnBars[j].timestamp
    /\ \A i, j, k, l \in DOMAIN OnBars :
          (/\ i < j /\ OnBars[i].timestamp = OnBars[j].timestamp
           /\ k < l /\ OnBars[k].timestamp = OnBars[l].timestamp)
             => ~(OnBars[i].symbol = OnBars[l].symbol /\ OnBars[j].symbol = OnBars[k].symbol)
    /\ pc = "done" =>
          \A t \in DOMAIN bars_by_time :
             \A sym \in DOMAIN BarsAt(t) :
                \E k \in DOMAIN OnBars : OnBars[k].symbol = sym /\ OnBars[k].timestamp = t

\* the timestamps sampled in equity_history, in order
SampledTimes == [k \in DOMAIN equity_history |-> equity_history[k][1]]

\* the state part of C22: the samples are of live timestamps only, one per timestamp and in
\* strictly increasing order; after the run every live timestamp has its sample
C22_Samples ==
    /\ \A k \in DOMAIN equity_history :
          /\ SampledTimes[k] \in DOMAIN bars_by_time
          /\ SampledTimes[k] >= start_date
    /\ \A i, j \in DOMAIN equity_history : i < j => SampledTimes[i] < SampledTimes[j]
    /\ pc = "done" =>
          \A t \in DOMAIN bars_by_time :
             t >= start_date => \E k \in DOMAIN equity_history : SampledTimes[k] = t

\* the step part of C22: a step keeps the samples it finds, and a step that adds one adds
\* exactly one, whose value is the portfolio value of the positions priced at the closes
\* of the sampled timestamp
C22_Step ==
    /\ Len(equity_history') >= Len(equity_history)
    /\ \A k \in DOMAIN equity_history : equity_history'[k] = equity_history[k]
    /\ Len(equity_history') > Len(equity_history) =>
          LET t == equity_history'[Len(equity_history')][1]
              value == equity_history'[Len(equity_history')][2]
          IN  /\ Len(equity_history') = Len(equity_history) + 1
              /\ \A sym \in DOMAIN positions' :
                    sym \in DOMAIN BarsAt(t) =>
                       positions'[sym].current_price = R(BarsAt(t)[sym].close)
              /\ value = PortfolioValueOf(cash', positions')

\* C22: equity_history holds exactly one sample per live timestamp (a timestamp at or after
\* start_date that has a bar), timestamps strictly increasing, each value the portfolio
\* value right after the positions were repriced to that timestamp's closes; a recorded
\* sample is never changed or removed.
C22_EquityHistory == []C22_Samples /\ [][C22_Step]_vars

\* the run has ended with two samples, and the second one valued a held position above the
\* price it was bought at
C22_Witness ==
    /\ pc = "done"
    /\ Len(equity_history) = 2
    /\ equity_history[2][2] # equity_history[1][2]
    /\ \E sym \in DOMAIN positions : positions[sym].quantity # 0

\* C23: every fill appends exactly one record to trade_history, carrying the fill's
\* timestamp, symbol, side, quantity, price and commission and the cash and the portfolio
\* value right after the fill; a step of the broker or the portfolio never changes,
\* reorders or removes a record already there.
C23_TradeHistory ==
    [][ /\ NewTradeCount = Cardinality(NewlyFilled)
        /\ \A k \in DOMAIN trade_history : trade_history'[k] = trade_history[k]
        /\ \A ref \in NewlyFilled : TradeRecordedFor(ref)
        /\ \A k \in (Len(trade_history) + 1)..Len(trade_history') :
              LET t == trade_history'[k]
                  cash_before == IF k = Len(trade_history) + 1 THEN cash
                                 ELSE trade_history'[k - 1].cash_after
              IN  /\ \E ref \in NewlyFilled :
                        /\ t.symbol = order_objs'[ref].symbol
                        /\ t.side = order_objs'[ref].side
                        /\ t.quantity = order_objs'[ref].quantity
                        /\ t.price = order_objs'[ref].filled_avg_price
                        /\ t.timestamp = order_objs'[ref].filled_at
                  /\ t.commission = RMul(R(t.quantity), commission_per_share)
                  /\ t.cash_after = RAdd(cash_before, CashDeltaOf(t))
                  /\ k = Len(trade_history') =>
                        /\ t.cash_after = cash'
                        /\ t.portfolio_value = PortfolioValueOf(cash', positions')
      ]_vars

\* two fills were recorded with a commission, and after the second one the portfolio still
\* holds a position
C23_Witness ==
    /\ Len(trade_history) = 2
    /\ trade_history[1].commission # R(0)
    /\ trade_history[2].portfolio_value # trade_history[2].cash_after
    /\ trade_history[2].portfolio_value = portfolio_value

-----------------------------------------------------------------------------
(* Constructors and metrics called on their own *)

\* the prices a caller may pass to Order: None or a price
PriceArgs == {NoPrice} \cup {R(p) : p \in Prices}

\* Order(...): the dataclass __init__ followed by __post_init__
Constructed(symbol, side, quantity, order_type, limit_price, stop_price) ==
    IF OrderValid(order_type, limit_price, stop_price)
    THEN Returned(Order(symbol, side, quantity, order_type, limit_price, stop_price))
    ELSE Raised("ValueError")

\* a caller constructs an Order
ConstructOrder(symbol, side, quantity, order_type, limit_price, stop_price) ==
    /\ last_call' = [call |-> "Order",
                     args |-> [symbol |-> symbol, side |-> side, quantity |-> quantity,
                               order_type |-> order_type, limit_price |-> limit_price,
                               stop_price |-> stop_price],
                     result |-> Constructed(symbol, side, quantity, order_type,
                                            limit_price, stop_price)]
    /\ UNCHANGED <<pvars, bvars, evars>>

(* PerformanceAnalytics: src/src/backtest/analytics.py.  A float is kept exactly as a sign
   and the square of its magnitude, so that sqrt(252) * mean / std has a value; nan is a
   value of its own. *)

NaN == [kind |-> "nan", sign |-> 0, square |-> R(0)]
Float(sign, square) == [kind |-> "float", sign |-> sign, square |-> square]
Zero == Float(0, R(0))
SignOf(x) == IF x[1] > 0 THEN 1 ELSE IF x[1] < 0 THEN -1 ELSE 0
\* the float of a rational
FromR(x) == Float(SignOf(x), RMul(x, x))
\* np.sqrt(k)
Sqrt(k) == Float(1, R(k))

\* x / y for rationals, y # 0
RDiv(x, y) ==
    IF y[1] > 0 THEN Norm(x[1] * y[2], x[2] * y[1])
    ELSE Norm(-(x[1] * y[2]), x[2] * (-y[1]))

\* a * b for floats
FMul(a, b) ==
    IF a.kind = "nan" \/ b.kind = "nan" THEN NaN
    ELSE Float(a.sign * b.sign, RMul(a.square, b.square))

\* a / b for floats, b not zero
FDiv(a, b) ==
    IF a.kind = "nan" \/ b.kind = "nan" THEN NaN
    ELSE Float(a.sign * b.sign, RDiv(a.square, b.square))

\* x == 0 for a float: never true of nan
IsZero(x) == x.kind = "float" /\ x.sign = 0

\* the equity curves given to the metrics: up to MaxSamples portfolio values
MaxSamples == 3
EquityValues == {1, 2, 4}
EquitySeries ==
    UNION {[1..n -> {R(v) : v \in EquityValues}] : n \in 0..MaxSamples}

\* equity.pct_change().dropna(): the return of every sample but the first
pct_change(equity) ==
    [k \in 1..(Len(equity) - 1) |-> RDiv(RSub(equity[k + 1], equity[k]), equity[k])]

\* Series.mean() of a series that is not empty
Mean(xs) == RDivInt(RSum(xs, DOMAIN xs), Len(xs))

\* Series.std(): the sample standard deviation (ddof = 1), nan for fewer than two values
Std(xs) ==
    IF Len(xs) < 2 THEN NaN
    ELSE LET m == Mean(xs)
             squares == [k \in DOMAIN xs |-> RMul(RSub(xs[k], m), RSub(xs[k], m))]
             variance == RDivInt(RSum(squares, DOMAIN xs), Len(xs) - 1)
         IN  Float(IF variance = R(0) THEN 0 ELSE 1, variance)

\* PerformanceAnalytics._calculate_sharpe_ratio with the default risk_free_rate 0.0 and
\* periods_per_year 252, as calculate_metrics calls it
calculate_sharpe_ratio(equity) ==
    IF Len(equity) < 2 THEN Zero
    ELSE LET returns == pct_change(equity)
         IN  IF Len(returns) = 0 \/ IsZero(Std(returns)) THEN Zero
             ELSE FMul(Sqrt(252), FDiv(FromR(Mean(returns)), Std(returns)))

\* PerformanceAnalytics._calculate_sortino_ratio with the same defaults
calculate_sortino_ratio(equity) ==
    IF Len(equity) < 2 THEN Zero
    ELSE LET returns == pct_change(equity)
             downside_returns == SelectSeq(returns, LAMBDA x : RLt(x, R(0)))
         IN  IF Len(returns) = 0 THEN Zero
             ELSE IF Len(downside_returns) = 0 \/ IsZero(Std(downside_returns)) THEN Zero
             ELSE FMul(Sqrt(252), FDiv(FromR(Mean(returns)), Std(downside_returns)))

\* a caller asks for the Sharpe ratio of an equity curve
SharpeRatio(equity) ==
    /\ last_call' = [call |-> "sharpe_ratio", args |-> equity,
                     result |-> Returned(calculate_sharpe_ratio(equity))]
    /\ UNCHANGED <<pvars, bvars, evars>>

\* a caller asks for the Sortino ratio of an equity curve
SortinoRatio(equity) ==
    /\ last_call' = [call |-> "sortino_ratio", args |-> equity,
                     result |-> Returned(calculate_sortino_ratio(equity))]
    /\ UNCHANGED <<pvars, bvars, evars>>

\* the orders callers construct, valid or not; the quantity is not looked at
NextCalls ==
    \/ \E symbol \in Symbols, side \in Sides, quantity \in 0..MaxOrderQty,
          order_type \in OrderTypes, limit_price \in PriceArgs, stop_price \in PriceArgs :
          ConstructOrder(symbol, side, quantity, order_type, limit_price, stop_price)
    \/ \E equity \in EquitySeries : SharpeRatio(equity)
    \/ \E equity \in EquitySeries : SortinoRatio(equity)

\* constructors and metrics applied to inputs of the caller's choice
SpecCalls == InitLedgerOnly /\ [][NextCalls]_vars

\* C24: constructing a limit order without limit_price, a stop order without stop_price, or
\* a stop-limit order without both prices raises ValueError and gives no order; every other
\* construction, a market order with or without prices among them, gives a pending order
\* with the given fields.
C24_OrderConstruction ==
    last_call.call = "Order" =>
       LET a == last_call.args
           missing ==
              \/ a.order_type = "limit" /\ a.limit_price = NoPrice
              \/ a.order_type = "stop" /\ a.stop_price = NoPrice
              \/ a.order_type = "stop_limit"
                    /\ (a.limit_price = NoPrice \/ a.stop_price = NoPrice)
       IN  /\ missing => last_call.result = Raised("ValueError")
           /\ ~missing =>
                 /\ last_call.result.kind = "value"
                 /\ last_call.result.value.status = "pending"
                 /\ last_call.result.value.order_type = a.order_type
                 /\ last_call.result.value.limit_price = a.limit_price
                 /\ last_call.result.value.stop_price = a.stop_price
                 /\ last_call.result.value.symbol = a.symbol
                 /\ last_call.result.value.quantity = a.quantity
           /\ a.order_type = "market" => last_call.result.kind = "value"

\* a stop-limit order was constructed with a limit price and no stop price, and raised
C24_Witness ==
    /\ last_call.call = "Order"
    /\ last_call.args.order_type = "stop_limit"
    /\ last_call.args.limit_price # NoPrice
    /\ last_call.args.stop_price = NoPrice
    /\ last_call.result.kind = "raised"

\* the returns of an equity curve have zero variance: they are all the same, as those of
\* a curve of equal samples are, and as none or one return is
ZeroVariance(equity) ==
    \A i, j \in DOMAIN pct_change(equity) : pct_change(equity)[i] = pct_change(equity)[j]

\* C25: for an equity curve whose returns have zero variance, of any length from 0
\* samples on, the Sharpe ratio and the Sortino ratio are exactly 0.0, not nan.
C25_ZeroVarianceRatios ==
    (last_call.call \in {"sharpe_ratio", "sortino_ratio"} /\ ZeroVariance(last_call.args))
       => last_call.result = Returned(Zero)

-----------------------------------------------------------------------------
(* The return percentages of Portfolio and PerformanceAnalytics *)

\* x / y as Python divides floats: a zero divisor raises
PyDiv(x, y) == IF y = R(0) THEN Raised("ZeroDivisionError") ELSE Returned(RDiv(x, y))

\* Portfolio.total_pnl_percent
total_pnl_percent ==
    IF initial_cash = R(0) THEN Returned(R(0))
    ELSE LET q == PyDiv(total_pnl, initial_cash)
         IN  IF q.kind = "raised" THEN q ELSE Returned(RMul(q.value, R(100)))

\* Portfolio.summary: the dict it returns, of which the two percentages are kept; the
\* dict literal evaluates total_pnl_percent and then return_percent
summary ==
    LET q == PyDiv(RSub(portfolio_value, initial_cash), initial_cash)
    IN  IF total_pnl_percent.kind = "raised" THEN total_pnl_percent
        ELSE IF q.kind = "raised" THEN q
        ELSE Returned([cash |-> cash,
                       portfolio_value |-> portfolio_value,
                       total_pnl |-> total_pnl,
                       total_pnl_percent |-> total_pnl_percent.value,
                       realized_pnl |-> realized_pnl,
                       return_percent |-> RMul(q.value, R(100))])

\* PerformanceAnalytics._calculate_total_return_percent
calculate_total_return_percent ==
    IF initial_cash = R(0) THEN Returned(R(0))
    ELSE LET q == PyDiv(RSub(portfolio_value, initial_cash), initial_cash)
         IN  IF q.kind = "raised" THEN q ELSE Returned(RMul(q.value, R(100)))

\* a caller reads Portfolio.total_pnl_percent
TotalPnlPercent ==
    /\ last_call' = [call |-> "total_pnl_percent", args |-> <<>>,
                     result |-> total_pnl_percent]
    /\ UNCHANGED <<pvars, bvars, evars>>

\* a caller calls Portfolio.summary()
Summary ==
    /\ last_call' = [call |-> "summary", args |-> <<>>, result |-> summary]
    /\ UNCHANGED <<pvars, bvars, evars>>

\* a caller asks the analytics for total_return_percent
TotalReturnPercent ==
    /\ last_call' = [call |-> "total_return_percent", args |-> <<>>,
                     result |-> calculate_total_return_percent]
    /\ UNCHANGED <<pvars, bvars, evars>>

\* Portfolio(initial_cash): the constructor takes any number, zero too
InitialCashArgs == {R(0), R(StartCash)}

\* a Portfolio constructed with either initial cash, used on its own
InitMetrics ==
    /\ initial_cash \in InitialCashArgs
    /\ cash = initial_cash
    /\ positions = <<>>
    /\ equity_history = <<>>
    /\ realized_pnl = R(0)
    /\ trade_history = <<>>
    /\ NoEngine
    /\ commission_per_share = R(0)
    /\ slippage_percent = R(0)
    /\ order_objs = <<>>
    /\ orders = <<>>
    /\ open_orders = <<>>
    /\ fill_events = <<>>
    /\ returned_events = <<>>

\* fills applied to the portfolio, and its return percentages read in between
NextMetrics ==
    \/ \E symbol \in Symbols, side \in Sides, qty \in 1..MaxQty, p \in Prices,
          c \in 0..MaxCommission :
          ProcessFill(symbol, side, qty, R(p), R(c), NoTimestamp) /\ UNCHANGED <<evars, last_call>>
    \/ TotalPnlPercent
    \/ Summary
    \/ TotalReturnPercent

SpecMetrics == InitMetrics /\ [][NextMetrics]_vars

\* C26: with initial_cash 0 every return percentage is 0.0 and none raises: the
\* return_percent and total_pnl_percent of Portfolio.summary(), Portfolio.total_pnl_percent
\* and the analytics' total_return_percent.
C26_ZeroInitialCash ==
    initial_cash = R(0) =>
       /\ last_call.call \in {"total_pnl_percent", "total_return_percent"}
             => last_call.result = Returned(R(0))
       /\ last_call.call = "summary" =>
             /\ last_call.result.kind = "value"
             /\ last_call.result.value.return_percent = R(0)
             /\ last_call.result.value.total_pnl_percent = R(0)

\* the two guarded computations do give 0.0 with initial_cash 0; only summary() is at odds
\* with C26
C26_GuardedPercentages ==
    (initial_cash = R(0) /\ last_call.call \in {"total_pnl_percent", "total_return_percent"})
       => last_call.result = Returned(R(0))

-----------------------------------------------------------------------------
(* BacktestEngine.run: the order of the steps of a live timestamp *)

\* the callbacks made by the current step
NewCallbacks == SubSeq(callbacks', Len(callbacks) + 1, Len(callbacks'))

\* the timestamp of the last equity sample: the live timestamp being processed
SampledTime == equity_history[Len(equity_history)][1]

\* a bar of the order's symbol with these prices fills the open order o
WouldFill(o, b) == o.order_type = "market" \/ ConditionMet(o, b)

\* the strategy has had on_bar for the symbol at the timestamp
HadOnBar(symbol, timestamp) ==
    \E k \in DOMAIN callbacks :
       /\ callbacks[k].name = "on_bar"
       /\ callbacks[k].symbol = symbol
       /\ callbacks[k].timestamp = timestamp

\* the strategy has had an on_fill for a fill of the timestamp
HadOnFill(timestamp) ==
    \E k \in DOMAIN callbacks :
       callbacks[k].name = "on_fill" /\ callbacks[k].timestamp = timestamp

\* C27: the live timestamps are processed in strictly ascending order, and within one
\* timestamp T the engine first reprices and takes the equity sample (before any fill,
\* on_bar or on_fill of T), then for each symbol runs process_bar before that symbol's
\* on_bar (a fill of the symbol at T comes before its on_bar, and at its on_bar no open
\* order of the symbol is left that the bar fills), and calls on_fill only after the
\* on_bar of every symbol that has a bar at T.
C27_LiveStepOrder ==
    [][ /\ Len(equity_history') > Len(equity_history) =>
              LET T == equity_history'[Len(equity_history')][1]
              IN  /\ \A k \in DOMAIN equity_history : equity_history[k][1] < T
                  /\ \A k \in DOMAIN trade_history' : trade_history'[k].timestamp < T
                  /\ \A k \in DOMAIN callbacks' :
                        callbacks'[k].name \in {"on_bar", "on_fill"}
                           => callbacks'[k].timestamp < T
        /\ \A k \in (Len(trade_history) + 1)..Len(trade_history') :
              /\ equity_history # <<>>
              /\ trade_history'[k].timestamp = SampledTime
              /\ ~HadOnBar(trade_history'[k].symbol, SampledTime)
              /\ ~HadOnFill(SampledTime)
              /\ NewCallbacks = <<>>
        /\ \A k \in DOMAIN NewCallbacks :
              (NewCallbacks[k].name = "on_bar" /\ NewCallbacks[k].timestamp >= start_date) =>
                 LET c == NewCallbacks[k]
                 IN  /\ equity_history # <<>>
                     /\ c.timestamp = SampledTime
                     /\ ~HadOnFill(c.timestamp)
                     /\ \A ref \in Refs(open_orders) :
                           order_objs[ref].symbol = c.symbol =>
                              ~WouldFill(order_objs[ref], BarsAt(c.timestamp)[c.symbol])
        /\ \A k \in DOMAIN NewCallbacks :
              NewCallbacks[k].name = "on_fill" =>
                 /\ equity_history # <<>>
                 /\ NewCallbacks[k].timestamp = SampledTime
                 /\ \A sym \in DOMAIN BarsAt(SampledTime) : HadOnBar(sym, SampledTime)
      ]_vars

\* a run over two live timestamps with bars of both symbols has ended, and an order
\* submitted at the first timestamp had its on_fill at the second
C27_Witness ==
    /\ pc = "done"
    /\ start_date = 1
    /\ Len(equity_history) = 2
    /\ Len(OnBars) = 4
    /\ \E k \in DOMAIN OnFills : OnFills[k].timestamp = 2

\* the callbacks that belong to a timestamp
OfTimestamp(c) == c.name \in {"on_bar", "on_fill"}

\* C28: every fill made while a live timestamp T is processed is delivered to on_fill
\* exactly once, in the order of the fills (fill k of the run is on_fill k, of an order
\* that is filled unless the strategy has submitted it again since, and the fills not yet
\* delivered are the queue, in order, all of them of the timestamp being processed; an
\* order submitted once has one on_fill at most); an on_fill of T comes after the on_bar of every symbol with a bar at T and
\* before every callback of a later timestamp; when the next timestamp begins and when
\* run has returned, the broker's queue is empty and every fill has had its on_fill.
C28_FillDelivery ==
    /\ Len(OnFills) + Len(Undelivered) = Len(trade_history)
    /\ \A k \in DOMAIN OnFills :
          /\ OnFills[k].order \in DOMAIN order_objs
          /\ order_objs[OnFills[k].order].symbol = trade_history[k].symbol
          /\ order_objs[OnFills[k].order].side = trade_history[k].side
          /\ OnFills[k].timestamp = trade_history[k].timestamp
          /\ SubmittedOnce(OnFills[k].order) =>
                /\ order_objs[OnFills[k].order].status = "filled"
                /\ order_objs[OnFills[k].order].filled_at = trade_history[k].timestamp
                /\ \A j \in DOMAIN OnFills : j # k => OnFills[j].order # OnFills[k].order
    /\ \A k \in DOMAIN Undelivered :
          /\ EventOfTrade(Undelivered[k], trade_history[Len(OnFills) + k])
          /\ equity_history # <<>>
          /\ Undelivered[k].timestamp = SampledTime
          /\ SubmittedOnce(Undelivered[k].order) =>
                \A j \in DOMAIN OnFills : OnFills[j].order # Undelivered[k].order
    /\ \A i \in DOMAIN callbacks :
          callbacks[i].name = "on_fill" =>
             /\ \A sym \in DOMAIN BarsAt(callbacks[i].timestamp) :
                   \E j \in 1..(i - 1) :
                      /\ callbacks[j].name = "on_bar"
                      /\ callbacks[j].symbol = sym
                      /\ callbacks[j].timestamp = callbacks[i].timestamp
             /\ \A j \in DOMAIN callbacks :
                   OfTimestamp(callbacks[j]) =>
                      /\ j < i => callbacks[j].timestamp <= callbacks[i].timestamp
                      /\ (j > i /\ callbacks[j].name = "on_bar")
                            => callbacks[j].timestamp > callbacks[i].timestamp
    /\ pc \in {"mark", "stopping", "done"} =>
          /\ fill_events = <<>>
          /\ Len(OnFills) = Len(trade_history)

\* run has returned after two orders were filled at the same live timestamp and both had
\* their on_fill
C28_Witness ==
    /\ pc = "done"
    /\ fill_events = <<>>
    /\ Len(OnFills) = 2
    /\ OnFills[1].timestamp = OnFills[2].timestamp
    /\ OnFills[1].order # OnFills[2].order

-----------------------------------------------------------------------------
(* BacktestBroker.process_bar: what a call leaves alone, and the figures of a fill *)

\* the open orders of the symbols other than the given one, in their order
OpenElsewhere(seq, symbol) == SelectSeq(seq, LAMBDA ref : order_objs[ref].symbol # symbol)

\* C29: process_bar for symbol S leaves every order of another symbol as it was (status
\* and fill fields), leaves the open orders of other symbols in the open list in the same
\* relative order, and leaves every position of another symbol as it was; a call for a
\* symbol that has no open order changes nothing at all.
C29_ProcessBarFrame ==
    [][ \A symbol \in Symbols, b \in Bars, timestamp \in Timestamps :
          IsProcessBar(symbol, b, timestamp) =>
             /\ \A ref \in DOMAIN order_objs :
                   order_objs[ref].symbol # symbol => order_objs'[ref] = order_objs[ref]
             /\ OpenElsewhere(open_orders', symbol) = OpenElsewhere(open_orders, symbol)
             /\ \A sym \in Symbols \ {symbol} :
                   /\ (sym \in DOMAIN positions') = (sym \in DOMAIN positions)
                   /\ sym \in DOMAIN positions => positions'[sym] = positions[sym]
             /\ (\A ref \in Refs(open_orders) : order_objs[ref].symbol # symbol)
                   => UNCHANGED vars
      ]_vars

\* an order was filled by a bar of its symbol while a market order of the other symbol,
\* submitted before it, stayed open and untouched
C29_Witness ==
    \E r1, r2 \in DOMAIN order_objs :
       /\ r2 < r1
       /\ order_objs[r1].status = "filled"
       /\ order_objs[r2].symbol # order_objs[r1].symbol
       /\ order_objs[r2].order_type = "market"
       /\ order_objs[r2].status = "submitted"
       /\ order_objs[r2].filled_at = NoTimestamp
       /\ r2 \in Refs(open_orders)

\* C30: a process_bar call enqueues exactly one fill event and records exactly one trade
\* per order it fills, in the same order, and the figures of a fill agree everywhere: the
\* price is the base fill price plus (buy) or minus (sell) slippage_percent of it and is
\* the order's filled_avg_price, the trade record's price and the event's fill_price; the
\* commission is quantity x commission_per_share in the trade record and in the event; the
\* filled order is not in the open orders when the call returns.
C30_FillFigures ==
    [][ \A symbol \in Symbols, b \in Bars, timestamp \in Timestamps :
          IsProcessBar(symbol, b, timestamp) =>
             /\ Len(fill_events') >= Len(fill_events)
             /\ \A k \in DOMAIN fill_events : fill_events'[k] = fill_events[k]
             /\ Len(NewFillEvents) = Cardinality(NewlyFilled)
             /\ Len(NewFillEvents) = NewTradeCount
             /\ \A ref \in NewlyFilled :
                   /\ Cardinality({k \in DOMAIN NewFillEvents : NewFillEvents[k].order = ref}) = 1
                   /\ ref \notin Refs(open_orders')
             /\ \A k \in DOMAIN NewFillEvents :
                   LET e == NewFillEvents[k]
                       t == trade_history'[Len(trade_history) + k]
                       o == order_objs[e.order]
                       price == WithSlippage(BaseFillPrice(o, R(b.open), R(b.high), R(b.low),
                                                           R(b.close)), o.side)
                   IN  /\ e.order \in NewlyFilled
                       /\ e.fill_price = price
                       /\ order_objs'[e.order].filled_avg_price = price
                       /\ t.price = price
                       /\ e.commission = RMul(R(o.quantity), commission_per_share)
                       /\ t.commission = e.commission
                       /\ e.fill_quantity = o.quantity
                       /\ t.quantity = o.quantity
                       /\ t.symbol = o.symbol /\ t.side = o.side
                       /\ e.timestamp = timestamp /\ t.timestamp = timestamp
      ]_vars

\* a sell order was filled by a broker with slippage and commission: its price lies below
\* the price of every bar, and its event with that price is in the queue
C30_Witness ==
    /\ slippage_percent # R(0)
    /\ commission_per_share # R(0)
    /\ \E k \in DOMAIN fill_events :
          LET o == order_objs[fill_events[k].order]
          IN  /\ o.side = "sell"
              /\ o.status = "filled"
              /\ o.filled_avg_price = fill_events[k].fill_price
              /\ RLt(o.filled_avg_price, R(1))
              /\ fill_events[k].commission # R(0)
              /\ fill_events[k].order \notin Refs(open_orders)

-----------------------------------------------------------------------------
(* BacktestEngine.run: on_start and on_stop *)

\* the positions in callbacks of the calls with the given name
CallsOf(name) == {k \in DOMAIN callbacks : callbacks[k].name = name}

\* C31: in a run that does not fail on_start is called exactly once, before every on_bar
\* (warmup or live), every fill of process_bar and every equity sample; on_stop is called
\* exactly once, after the fill events of the last timestamp were dispatched (the queue
\* is empty and every fill has had its on_fill), and no callback follows it.
C31_StartAndStop ==
    /\ callbacks = <<>> =>
          /\ pc \in {"ready", "failed"}
          /\ equity_history = <<>>
          /\ trade_history = <<>>
          /\ fill_events = <<>>
    /\ callbacks # <<>> => CallsOf("on_start") = {1}
    /\ CallsOf("on_stop") \subseteq {Len(callbacks)}
    /\ CallsOf("on_stop") # {} =>
          /\ pc = "done"
          /\ fill_events = <<>>
          /\ Len(OnFills) = Len(trade_history)
    /\ pc = "done" =>
          /\ Cardinality(CallsOf("on_start")) = 1
          /\ Cardinality(CallsOf("on_stop")) = 1

\* a run whose first live timestamp is the second timestamp has ended with a fill:
\* on_start is its first callback and on_stop its last
C31_Witness ==
    /\ pc = "done"
    /\ start_date = 2
    /\ Len(OnFills) >= 1
    /\ callbacks[1].name = "on_start"
    /\ callbacks[2].name = "on_bar"
    /\ callbacks[Len(callbacks) - 1].name = "on_fill"
    /\ callbacks[Len(callbacks)].name = "on_stop"

-----------------------------------------------------------------------------
(* BacktestBroker: stop-limit orders, repeated fills, the open orders, limit prices, cash *)

\* the stop-limit orders the broker was given
StopLimits == {ref \in DOMAIN order_objs : order_objs[ref].order_type = "stop_limit"}

\* C32: a submitted stop-limit order is never filled: it is submitted and in the open
\* orders, or canceled; it carries no fill, no fill event names it and every trade record
\* belongs to another, filled, order; a process_bar call, whatever its bar, leaves it and
\* its place among the open orders as they were, and only cancel_order ends it.
C32_StopLimitNeverFills ==
    /\ [](/\ \A ref \in StopLimits :
                /\ order_objs[ref].status \in {"submitted", "canceled"}
                /\ order_objs[ref].status = "submitted" => ref \in Refs(open_orders)
                /\ order_objs[ref].filled_at = NoTimestamp
                /\ order_objs[ref].filled_quantity = 0
                /\ order_objs[ref].filled_avg_price = NoPrice
                /\ \A k \in DOMAIN fill_events : fill_events[k].order # ref
                /\ \A k \in DOMAIN returned_events : returned_events[k].order # ref
          /\ Len(trade_history)
                = Cardinality({ref \in DOMAIN order_objs \ StopLimits :
                                  order_objs[ref].status = "filled"}))
    /\ [][ /\ \A symbol \in Symbols, b \in Bars, timestamp \in Timestamps :
                IsProcessBar(symbol, b, timestamp) =>
                   /\ \A ref \in StopLimits : order_objs'[ref] = order_objs[ref]
                   /\ SelectSeq(open_orders', LAMBDA ref : ref \in StopLimits)
                         = SelectSeq(open_orders, LAMBDA ref : ref \in StopLimits)
           /\ \A ref \in StopLimits :
                 order_objs'[ref].status # order_objs[ref].status =>
                    /\ order_objs'[ref].status = "canceled"
                    /\ \E order_id \in OrderIds :
                          /\ CancelResult(order_id)
                          /\ orders[order_id] = ref
                          /\ CancelOrder(order_id)
         ]_vars

\* a stop-limit order is still open and untouched although a market order of its symbol,
\* submitted after it, was filled by a bar of that symbol
C32_Witness ==
    \E r1, r2 \in DOMAIN order_objs :
       /\ r1 < r2
       /\ r1 \in StopLimits
       /\ order_objs[r1].status = "submitted"
       /\ r1 \in Refs(open_orders)
       /\ order_objs[r2].symbol = order_objs[r1].symbol
       /\ order_objs[r2].order_type = "market"
       /\ order_objs[r2].status = "filled"

-----------------------------------------------------------------------------
(* PerformanceAnalytics._get_trade_pnls: the round-trip P&Ls replayed from trade_history *)

\* positions[symbol] = {'quantity': 0, 'cost_basis': 0.0}
NewReplayPosition == [quantity |-> 0, cost_basis |-> R(0)]

\* the replay before the first trade
ReplayStart == [positions |-> <<>>, pnls |-> <<>>]

\* a slip: a buy sets the cost basis to its own price
ReplayStep_LastPrice(st, trade) ==
    LET symbol == trade.symbol
        pos == IF symbol \in DOMAIN st.positions THEN st.positions[symbol]
               ELSE NewReplayPosition
        with(newpos) == [s \in DOMAIN st.positions \cup {symbol} |->
                            IF s = symbol THEN newpos ELSE st.positions[s]]
    IN  IF trade.side = "buy"
        THEN [positions |-> with([quantity |-> pos.quantity + trade.quantity,
                                  cost_basis |-> trade.price]),
              pnls |-> st.pnls]
        ELSE IF pos.quantity > 0
        THEN [positions |-> with([pos EXCEPT !.quantity = pos.quantity - trade.quantity]),
              pnls |-> Append(st.pnls,
                              RMul(RSub(trade.price, pos.cost_basis), R(trade.quantity)))]
        ELSE [positions |-> with(pos), pnls |-> st.pnls]

\* one iteration of the loop of _get_trade_pnls
ReplayStep(st, trade) ==
    LET symbol == trade.symbol
        pos == IF symbol \in DOMAIN st.positions THEN st.positions[symbol]
               ELSE NewReplayPosition
        with(newpos) == [s \in DOMAIN st.positions \cup {symbol} |->
                            IF s = symbol THEN newpos ELSE st.positions[s]]
    IN  IF trade.side = "buy"
        THEN LET total_cost == RAdd(RMul(pos.cost_basis, R(Abs(pos.quantity))),
                                    RMul(trade.price, R(trade.quantity)))
                 quantity == pos.quantity + trade.quantity
             IN  [positions |-> with([quantity |-> quantity,
                                      cost_basis |-> IF quantity # 0
                                                     THEN RDivInt(total_cost, Abs(quantity))
                                                     ELSE pos.cost_basis]),
                  pnls |-> st.pnls]
        ELSE IF pos.quantity > 0
        THEN \* closing long
             [positions |-> with([pos EXCEPT !.quantity = pos.quantity - trade.quantity]),
              pnls |-> Append(st.pnls,
                              RMul(RSub(trade.price, pos.cost_basis), R(trade.quantity)))]
        ELSE [positions |-> with(pos), pnls |-> st.pnls]

RECURSIVE Replay(_, _)
\* for trade in trades, up to trade k
Replay(trades, k) == IF k = 0 THEN ReplayStart ELSE ReplayStep(Replay(trades, k - 1), trades[k])

\* PerformanceAnalytics._get_trade_pnls
get_trade_pnls(trades) == IF trades = <<>> THEN <<>> ELSE Replay(trades, Len(trades)).pnls

\* the fills given to the portfolio before its analytics are computed
MaxTrades == 4

\* a call of Portfolio.process_fill without commission, as the default broker makes it
ReplayFill(symbol, side, qty, fill_price) ==
    /\ Len(trade_history) < MaxTrades
    /\ NoCall
    /\ LET pf == process_fill(Ledger, symbol, side, qty, fill_price, R(0), NoTimestamp)
       IN  /\ cash' = pf.cash
           /\ positions' = pf.positions
           /\ realized_pnl' = pf.realized_pnl
           /\ trade_history' = pf.trade_history
    /\ UNCHANGED <<initial_cash, equity_history, last_call>>
    /\ UNCHANGED <<bvars, evars>>

\* the analytics replay the trades of the portfolio
TradePnls ==
    /\ last_call' = [call |-> "trade_pnls", args |-> trade_history,
                     result |-> Returned(get_trade_pnls(trade_history))]
    /\ UNCHANGED <<pvars, bvars, evars>>

NextReplay ==
    \/ \E symbol \in Symbols, side \in Sides, qty \in 1..MaxQty, p \in Prices :
          ReplayFill(symbol, side, qty, R(p))
    \/ TradePnls

\* fills applied to a portfolio, then replayed by its analytics
SpecReplay == InitLedgerOnly /\ [][NextReplay]_vars

RECURSIVE PositionsBefore(_, _)
\* the positions the Portfolio held before trade k of the history h
PositionsBefore(h, k) ==
    IF k = 1 THEN <<>>
    ELSE PositionsAfterFill(PositionsBefore(h, k - 1), h[k - 1].symbol, SignedOf(h[k - 1]),
                            h[k - 1].price)

\* the long position the Portfolio held in the symbol of trade k before it, 0 if none
LongHeld(h, k) ==
    LET ps == PositionsBefore(h, k)
    IN  IF h[k].symbol \in DOMAIN ps /\ ps[h[k].symbol].quantity > 0
        THEN ps[h[k].symbol].quantity ELSE 0

RECURSIVE LongClosePnls(_, _)
\* for trades 1 .. k of h: one entry per sell that reduced a long position of the
\* Portfolio, (sell price - average entry price) * sold quantity
LongClosePnls(h, k) ==
    IF k = 0 THEN <<>>
    ELSE IF h[k].side = "sell" /\ LongHeld(h, k) > 0
    THEN Append(LongClosePnls(h, k - 1),
                RMul(RSub(h[k].price, PositionsBefore(h, k)[h[k].symbol].avg_entry_price),
                     R(h[k].quantity)))
    ELSE LongClosePnls(h, k - 1)

\* C33: the P&L list the analytics replay from trade_history has one entry for each sell
\* that reduced a long position the Portfolio held at that moment, equal to (sell price -
\* the position's average entry price) * sold quantity, and no entry for any other fill,
\* for every fill sequence, those with short positions included.
C33_TradePnls ==
    last_call.call = "trade_pnls" =>
       last_call.result = Returned(LongClosePnls(last_call.args, Len(last_call.args)))

\* the history h is long-only: every sell is no larger than the long position the
\* Portfolio holds in its symbol
LongOnly(h) ==
    \A k \in DOMAIN h : h[k].side = "sell" => h[k].quantity <= LongHeld(h, k)

RECURSIVE SeqSum(_)
\* sum(pnls)
SeqSum(xs) == IF xs = <<>> THEN R(0) ELSE RAdd(Head(xs), SeqSum(Tail(xs)))

\* C40: for a long-only fill sequence the round-trip P&Ls the analytics replay from
\* trade_history add up to the Portfolio's realized_pnl, also with several symbols and
\* with a full close followed by a re-entry.
C40_LongOnlyPnls ==
    (last_call.call = "trade_pnls" /\ last_call.args = trade_history /\ LongOnly(trade_history))
       => /\ last_call.result.kind = "value"
          /\ SeqSum(last_call.result.value) = realized_pnl

\* the analytics replayed a long-only history of four fills in which a position was
\* closed in full and the symbol was bought and sold again, with a realized P&L that is
\* not zero
C40_Witness ==
    /\ last_call.call = "trade_pnls"
    /\ last_call.args = trade_history
    /\ LongOnly(trade_history)
    /\ Len(trade_history) = 4
    /\ \A k \in DOMAIN trade_history : trade_history[k].symbol = "A"
    /\ trade_history[1].side = "buy"
    /\ trade_history[2].side = "sell"
    /\ trade_history[2].quantity = trade_history[1].quantity
    /\ trade_history[3].side = "buy"
    /\ trade_history[4].side = "sell"
    /\ Len(last_call.result.value) = 2
    /\ realized_pnl # R(0)

-----------------------------------------------------------------------------
(* Portfolio: conservation of value *)

\* the commissions of all fills so far
CommissionsPaid == SeqSum([k \in DOMAIN trade_history |-> trade_history[k].commission])

\* C34: after any sequence of process_fill and update_position_prices calls,
\* portfolio_value - initial_cash equals total_pnl (realized P&L plus the unrealized P&L
\* of the open positions) minus the commissions paid, with long and short positions,
\* closes and reversals.
C34_Conservation ==
    RSub(portfolio_value, initial_cash) = RSub(total_pnl, CommissionsPaid)

\* a short position that was opened with a commission and repriced away from its entry
\* price is held, so that the portfolio has an unrealized P&L and has paid a commission
C34_Witness ==
    /\ CommissionsPaid # R(0)
    /\ \E sym \in DOMAIN positions :
          /\ positions[sym].quantity < 0
          /\ unrealized_pnl(positions[sym]) # R(0)
    /\ portfolio_value # initial_cash

-----------------------------------------------------------------------------
(* BacktestBroker: orders submitted more than once, and the open orders *)

\* every fill event made so far: those already handed out, then those still queued
AllFillEvents == returned_events \o fill_events

\* the fill events made for the order object ref
FillsOf(ref) == {k \in DOMAIN AllFillEvents : AllFillEvents[k].order = ref}

\* C35: every order object is filled at most once: at most one fill event, and with it one
\* trade record, is ever made for it, over any sequence of submit_order, cancel_order and
\* process_bar calls, also when the same object is passed to submit_order again.
C35_FilledAtMostOnce ==
    /\ \A ref \in DOMAIN order_objs : Cardinality(FillsOf(ref)) <= 1
    /\ Len(trade_history) <= Cardinality(DOMAIN order_objs)

\* the order objects registered in self.orders
Registered == {orders[id] : id \in DOMAIN orders}

\* C36: between operations the open orders are exactly the registered orders whose status
\* is submitted, each once: no filled or canceled order is among them, no submitted order
\* is missing, and get_order with the id of an open order gives that order.
C36_OpenOrders ==
    /\ \A i, j \in DOMAIN open_orders : i # j => open_orders[i] # open_orders[j]
    /\ \A ref \in Refs(open_orders) :
          /\ ref \in Registered
          /\ order_objs[ref].status = "submitted"
          /\ get_order(order_objs[ref].order_id) = ref
    /\ \A ref \in Registered :
          order_objs[ref].status = "submitted" => ref \in Refs(open_orders)

-----------------------------------------------------------------------------
(* BacktestEngine.run: when an order submitted in a callback can fill *)

\* C37: no order is filled at the timestamp at which it was submitted: when an on_bar of
\* live timestamp T has submitted an order and run goes on to the next symbol of T, the
\* process_bar it calls there for the bar of T does not fill that order.
C37_NoFillAtSubmissionTime ==
    [][ (pc = "on_bar" /\ pc' = "bar") =>
           \A ref \in DOMAIN order_objs' \ DOMAIN order_objs :
              ~(/\ ref \in Refs(open_orders')
                /\ order_objs'[ref].symbol = CurrentSymbol'
                /\ WouldFill(order_objs'[ref], CurrentBar')) ]_vars

-----------------------------------------------------------------------------
(* BacktestBroker: the fill price of a limit order, and the cash *)

\* the limit orders that were filled
FilledLimits ==
    {ref \in DOMAIN order_objs :
        order_objs[ref].order_type = "limit" /\ order_objs[ref].status = "filled"}

\* C38: a limit order never fills at a price worse than its limit, whatever
\* slippage_percent >= 0 is configured: the filled_avg_price of a filled buy limit is at
\* most its limit_price, that of a filled sell limit at least its limit_price.
C38_LimitPriceRespected ==
    \A ref \in FilledLimits :
       IF order_objs[ref].side = "buy"
       THEN RLe(order_objs[ref].filled_avg_price, order_objs[ref].limit_price)
       ELSE RLe(order_objs[ref].limit_price, order_objs[ref].filled_avg_price)

\* a Portfolio constructed with any of the initial cash amounts, and its BacktestBroker
\* driven by a strategy and a bar feed
InitAnyCash ==
    /\ initial_cash \in InitialCashArgs
    /\ cash = initial_cash
    /\ positions = <<>>
    /\ equity_history = <<>>
    /\ realized_pnl = R(0)
    /\ trade_history = <<>>
    /\ InitBroker
    /\ NoEngine

SpecAnyCash == InitAnyCash /\ [][Next]_vars

\* C39: started from initial_cash >= 0, the cash of the portfolio is never negative.
C39_CashNeverNegative ==
    RLe(R(0), cash)
====
